---- MODULE Spec2Model ----
(***************************************************************************)
(* KurServer: the backup-guarded uninstallation orchestrator               *)
(* (uninstallers/base.py, uninstallers/nginx.py), the archive store        *)
(* (utils/backup.py) and the package controller (utils/package.py).        *)
(*                                                                         *)
(* One behaviour follows one component profile: either a profile that      *)
(* inherits BaseUninstaller.uninstall ("base") or the web-server profile   *)
(* with its own uninstall ("nginx").  Every phase of uninstall() is one    *)
(* step; the operating system (installed packages, active services, the    *)
(* filesystem) and the outcome of each external command are the inputs.    *)
(***************************************************************************)
EXTENDS Integers, Sequences, FiniteSets, TLC

VARIABLES
    profile,     \* "base" | "nginx": whose uninstall() drives the run
    services,    \* get_service_names() of the profile
    packages,    \* get_package_names() of the profile
    installed,   \* OS: packages dpkg reports as installed ("ii")
    active,      \* OS: services systemctl reports as active
    fs,          \* OS: the existing paths (a path is a sequence of names)
    clock,       \* the second-resolution timestamp datetime.now() yields
    archives,    \* backup dir: timestamp -> archive file
    manifests,   \* backup dir: timestamp -> manifest file
    pc,          \* position of the uninstall() run
    runId,       \* number of uninstall() runs started so far
    calls,       \* phases invoked by the current run, in order
    rets,        \* what each invoked phase returned (aligned with calls)
    backupPath,  \* what create_backup returned in this run (0 is None)
    cmds,        \* service / package / file commands issued by the run
    result,      \* what uninstall() returned: "none" | "true" | "false"
    lastRestore, \* the latest restore_backup invocation (<<>>: none yet)
    lastOp,      \* the latest direct BackupManager call and what it returned
    listing,     \* what the latest list_backups returned, until the next write
    returned,    \* timestamps whose archive path a direct create_backup returned
    made,        \* number of direct create_backup calls made so far
    inv,         \* the two overlapping create_backup invocations, step by step
    mlen,        \* manifest file name -> bytes the file holds now
    built,       \* the constructed profile object's attributes
    dbs,         \* the databases the server holds, as SHOW DATABASES lists them
    available_space, \* free bytes of the root filesystem (-1: statvfs raises)
    raised,      \* the exceptions raised inside phases so far, in order
    runs         \* the uninstall() runs of two processes on one host

vars == <<profile, services, packages, installed, active, fs, clock,
          archives, manifests, pc, runId, calls, rets, backupPath, cmds,
          result, lastRestore, lastOp, listing,
          returned, made, inv, mlen, built, dbs,
          available_space, raised, runs>>

osVars == <<installed, active, fs>>
cfgVars == <<profile, services, packages>>
storeVars == <<archives, manifests>>
callVars == <<lastOp, listing, returned, made>>
raceVars == <<inv, mlen>>
objVars == <<built, dbs, available_space>>
excVars == <<raised>>
concVars == <<runs>>
extVars == <<raceVars, objVars, excVars, concVars>>
runVars == <<pc, runId, calls, rets, backupPath, cmds, result, lastRestore>>

----------------------------------------------------------------------------
(* Bounds *)

MaxServices == 2
MaxPackages == 2
MaxTime == 2
MaxRuns == 1
MaxFreeExtra == 2
MaxUninstalls == 2

----------------------------------------------------------------------------
(* Profiles *)

Profiles == {"base", "nginx"}

BaseServiceNames == <<"test-service", "test-service-2", "test-service-3">>
BasePackageNames == <<"test-package", "test-package-2", "test-package-3">>
BaseBackupPaths == << <<"tmp", "test-config">>, <<"tmp", "a">> >>

NginxPackageNames == <<"nginx", "nginx-common", "nginx-core">>
NginxServiceNames == <<"nginx">>
NginxBackupCandidates ==
    << <<"etc", "nginx">>,
       <<"etc", "nginx", "sites-enabled">>,
       <<"etc", "nginx", "sites-available">>,
       <<"etc", "ssl", "certs">>,
       <<"etc", "ssl", "private">>,
       <<"var", "log", "nginx">>,
       <<"etc", "nginx", "conf.d">> >>
NginxCleanupPaths ==
    << <<"etc", "nginx">>, <<"var", "log", "nginx">>,
       <<"var", "cache", "nginx">>, <<"var", "lib", "nginx">> >>
NginxBuffer == 100 * 1024 * 1024
CommonPorts == {80, 443, 8080}

Range(s) == {s[i] : i \in DOMAIN s}

\* the filesystems a behaviour may start from
NginxFilesystems ==
    { Range(NginxBackupCandidates) \cup {<<"var", "cache", "nginx">>},
      {<<"etc", "nginx">>, <<"etc", "nginx", "sites-enabled">>,
       <<"var", "log", "nginx">>},
      {} }
BaseFilesystems ==
    { Range(BaseBackupPaths), {BaseBackupPaths[1]}, {} }

IsPrefix(p, q) == Len(p) <= Len(q) /\ SubSeq(q, 1, Len(p)) = p

\* os.path.basename
Basename(p) == p[Len(p)]

\* the elements of list s that satisfy membership in set S, in list order
RECURSIVE FilterIn(_, _)
FilterIn(s, S) ==
    IF s = <<>> THEN <<>>
    ELSE IF Head(s) \in S THEN <<Head(s)>> \o FilterIn(Tail(s), S)
         ELSE FilterIn(Tail(s), S)

get_service_names(pr) ==
    IF pr = "nginx" THEN NginxServiceNames
    ELSE SubSeq(BaseServiceNames, 1, MaxServices)

get_package_names(pr) ==
    IF pr = "nginx" THEN NginxPackageNames
    ELSE SubSeq(BasePackageNames, 1, MaxPackages)

get_backup_paths(pr, files) ==
    IF pr = "nginx" THEN FilterIn(NginxBackupCandidates, files)
    ELSE BaseBackupPaths

----------------------------------------------------------------------------
(* Archive store: utils/backup.py *)

Timestamps == 1..MaxTime

NoArchive == [exists |-> FALSE, complete |-> FALSE, srcs |-> <<>>, run |-> 0]
NoManifest == [exists |-> FALSE, valid |-> FALSE, contents |-> <<>>,
               created |-> 0, run |-> 0]

\* no direct call made yet / no listing in hand (again: the listing repeats
\* a call made with no write to the backup directory in between)
NoCall == [op |-> "none", ts |-> 0, io |-> "ok", ret |-> FALSE, paths |-> <<>>,
           target |-> 0, keep |-> 0, sub |-> FALSE, stOf |-> <<>>,
           deleted |-> 0]
NoListing == [valid |-> FALSE, entries |-> <<>>, again |-> FALSE]

\* the two create_backup invocations that may overlap; none under way
Invocations == {1, 2}
NoInvocation == [pc |-> "idle", ts |-> 0, paths |-> <<>>, size |-> 0,
                 shared |-> FALSE, overlapped |-> FALSE]

\* no profile object constructed (seen: the server packages the constructor
\* found installed)
\* the processes that may run uninstall() on one host at the same time
ConcurrentRuns == {1, 2}
NoRun == [pc |-> "idle", reached |-> 0, backup |-> 0, late |-> FALSE,
          result |-> "none"]

NoObject == [state |-> "none", component_name |-> "", db_type |-> "",
             service_name |-> "", version |-> "", php_package |-> "", seen |-> {}]
ExtIdle ==
    /\ inv = [p \in Invocations |-> NoInvocation]
    /\ mlen = [t \in Timestamps |-> 0]
    /\ built = NoObject
    /\ dbs = <<>>
    /\ available_space = -1
    /\ raised = <<>>
    /\ runs = [r \in ConcurrentRuns |-> NoRun]

BackupStages == {"ok", "open", "add", "manifest_open", "manifest_write", "chmod"}

\* mutant: the archive path is returned although the manifest could not be
\* written
BackupManager_create_backup_NoManifestCheck(paths, ts, st, files, arch, man, run) ==
    LET added == FilterIn(paths, files)
        partial == IF added = <<>> THEN <<>> ELSE SubSeq(added, 1, Len(added) - 1)
        arch1 == IF st = "open" THEN arch
                 ELSE IF st = "add"
                      THEN [arch EXCEPT ![ts] = [exists |-> TRUE, complete |-> FALSE,
                                                 srcs |-> partial, run |-> run]]
                      ELSE [arch EXCEPT ![ts] = [exists |-> TRUE, complete |-> TRUE,
                                                 srcs |-> added, run |-> run]]
        man1 == IF st \in {"open", "add", "manifest_open"} THEN man
                ELSE IF st = "manifest_write"
                     THEN [man EXCEPT ![ts] = [exists |-> TRUE, valid |-> FALSE,
                                               contents |-> <<>>, created |-> ts,
                                               run |-> run]]
                     ELSE [man EXCEPT ![ts] = [exists |-> TRUE, valid |-> TRUE,
                                               contents |-> paths, created |-> ts,
                                               run |-> run]]
    IN [ret |-> IF st \in {"ok", "manifest_open", "manifest_write"} THEN ts ELSE 0,
        archives |-> arch1, manifests |-> man1]

\* mutant: a path that does not exist aborts the backup
BackupManager_create_backup_Strict(paths, ts, st, files, arch, man, run) ==
    LET added == FilterIn(paths, files)
        missing == added # paths
        arch1 == IF st = "open" THEN arch
                 ELSE IF st = "add" \/ missing
                      THEN [arch EXCEPT ![ts] = [exists |-> TRUE, complete |-> FALSE,
                                                 srcs |-> <<>>, run |-> run]]
                      ELSE [arch EXCEPT ![ts] = [exists |-> TRUE, complete |-> TRUE,
                                                 srcs |-> added, run |-> run]]
        man1 == IF st \in {"open", "add", "manifest_open"} \/ missing THEN man
                ELSE IF st = "manifest_write"
                     THEN [man EXCEPT ![ts] = [exists |-> TRUE, valid |-> FALSE,
                                               contents |-> <<>>, created |-> ts,
                                               run |-> run]]
                     ELSE [man EXCEPT ![ts] = [exists |-> TRUE, valid |-> TRUE,
                                               contents |-> paths, created |-> ts,
                                               run |-> run]]
    IN [ret |-> IF st = "ok" /\ ~missing THEN ts ELSE 0,
        archives |-> arch1, manifests |-> man1]

\* mutant: a backup with nothing in it is refused
BackupManager_create_backup_NeedsContent(paths, ts, st, files, arch, man, run) ==
    LET added == FilterIn(paths, files)
        partial == IF added = <<>> THEN <<>> ELSE SubSeq(added, 1, Len(added) - 1)
        arch1 == IF st = "open" \/ added = <<>> THEN arch
                 ELSE IF st = "add"
                      THEN [arch EXCEPT ![ts] = [exists |-> TRUE, complete |-> FALSE,
                                                 srcs |-> partial, run |-> run]]
                      ELSE [arch EXCEPT ![ts] = [exists |-> TRUE, complete |-> TRUE,
                                                 srcs |-> added, run |-> run]]
        man1 == IF st \in {"open", "add", "manifest_open"} \/ added = <<>> THEN man
                ELSE IF st = "manifest_write"
                     THEN [man EXCEPT ![ts] = [exists |-> TRUE, valid |-> FALSE,
                                               contents |-> <<>>, created |-> ts,
                                               run |-> run]]
                     ELSE [man EXCEPT ![ts] = [exists |-> TRUE, valid |-> TRUE,
                                               contents |-> paths, created |-> ts,
                                               run |-> run]]
    IN [ret |-> IF st = "ok" /\ added # <<>> THEN ts ELSE 0,
        archives |-> arch1, manifests |-> man1]

\* BackupManager.create_backup(paths) at timestamp ts, failing at stage st
\* ("ok": no I/O error).  Yields the returned path (0 is None) and the files.
BackupManager_create_backup(paths, ts, st, files, arch, man, run) ==
    LET added == FilterIn(paths, files)
        partial == IF added = <<>> THEN <<>> ELSE SubSeq(added, 1, Len(added) - 1)
        arch1 == IF st = "open" THEN arch
                 ELSE IF st = "add"
                      THEN [arch EXCEPT ![ts] = [exists |-> TRUE, complete |-> FALSE,
                                                 srcs |-> partial, run |-> run]]
                      ELSE [arch EXCEPT ![ts] = [exists |-> TRUE, complete |-> TRUE,
                                                 srcs |-> added, run |-> run]]
        man1 == IF st \in {"open", "add", "manifest_open"} THEN man
                ELSE IF st = "manifest_write"
                     THEN [man EXCEPT ![ts] = [exists |-> TRUE, valid |-> FALSE,
                                               contents |-> <<>>, created |-> ts,
                                               run |-> run]]
                     ELSE [man EXCEPT ![ts] = [exists |-> TRUE, valid |-> TRUE,
                                               contents |-> paths, created |-> ts,
                                               run |-> run]]
    IN [ret |-> IF st = "ok" THEN ts ELSE 0, archives |-> arch1, manifests |-> man1]

\* os.listdir(backup_dir): the manifest files come in an arbitrary order
DirOrders == { o \in [1..MaxTime -> Timestamps] :
                 \A i, j \in 1..MaxTime : o[i] = o[j] => i = j }
DirOrder == [i \in 1..MaxTime |-> i]

\* mutant: a manifest is reported whether or not its archive exists
RECURSIVE Collect_NoArchiveCheck(_, _, _)
Collect_NoArchiveCheck(order, arch, man) ==
    IF order = <<>> THEN <<>>
    ELSE LET t == Head(order)
             rest == Collect_NoArchiveCheck(Tail(order), arch, man)
         IN IF man[t].exists /\ man[t].valid
            THEN <<t>> \o rest
            ELSE rest

\* the loop of list_backups: a manifest is kept when it can be read and its
\* backup_file exists; an unreadable manifest is skipped
RECURSIVE Collect(_, _, _)
Collect(order, arch, man) ==
    IF order = <<>> THEN <<>>
    ELSE LET t == Head(order)
             rest == Collect(Tail(order), arch, man)
         IN IF man[t].exists /\ man[t].valid /\ arch[t].exists
            THEN <<t>> \o rest
            ELSE rest

\* mutant: the sort runs without reverse=True
RECURSIVE InsertNewestFirst_OldestFirst(_, _)
InsertNewestFirst_OldestFirst(t, sorted) ==
    IF sorted = <<>> THEN <<t>>
    ELSE IF t < Head(sorted) THEN <<t>> \o sorted
         ELSE <<Head(sorted)>> \o InsertNewestFirst_OldestFirst(t, Tail(sorted))

\* backups.sort(key=lambda x: x["timestamp"], reverse=True)
RECURSIVE InsertNewestFirst(_, _)
InsertNewestFirst(t, sorted) ==
    IF sorted = <<>> THEN <<t>>
    ELSE IF t > Head(sorted) THEN <<t>> \o sorted
         ELSE <<Head(sorted)>> \o InsertNewestFirst(t, Tail(sorted))

RECURSIVE SortNewestFirst(_)
SortNewestFirst(entries) ==
    IF entries = <<>> THEN <<>>
    ELSE InsertNewestFirst(Head(entries), SortNewestFirst(Tail(entries)))

\* mutant: the entries are returned in directory order
list_backups_in_Unsorted(order, arch, man) == Collect(order, arch, man)

\* BackupManager.list_backups() when os.listdir yields the order given
list_backups_in(order, arch, man) == SortNewestFirst(Collect(order, arch, man))

list_backups(arch, man) == list_backups_in(DirOrder, arch, man)

\* mutant: a backup is used up by restoring it
restore_backup_Consuming(ts, extractOk, files, arch, man) ==
    LET listed == list_backups(arch, man)
        t == IF ts # 0 THEN ts ELSE IF listed = <<>> THEN 0 ELSE listed[1]
        found == t # 0 /\ man[t].exists /\ man[t].valid /\ arch[t].exists
        ok == found /\ arch[t].complete /\ extractOk
    IN [ret |-> ok,
        fs |-> IF ok THEN files \cup { <<Basename(p)>> : p \in Range(arch[t].srcs) }
               ELSE files,
        target |-> IF found THEN t ELSE 0,
        archives |-> IF ok THEN [arch EXCEPT ![t] = NoArchive] ELSE arch,
        manifests |-> IF ok THEN [man EXCEPT ![t] = NoManifest] ELSE man]

\* mutant: with no timestamp the oldest listed backup is restored
restore_backup_Oldest(ts, extractOk, files, arch, man) ==
    LET listed == list_backups(arch, man)
        t == IF ts # 0 THEN ts ELSE IF listed = <<>> THEN 0 ELSE listed[Len(listed)]
        found == t # 0 /\ man[t].exists /\ man[t].valid /\ arch[t].exists
        ok == found /\ arch[t].complete /\ extractOk
    IN [ret |-> ok,
        fs |-> IF ok THEN files \cup { <<Basename(p)>> : p \in Range(arch[t].srcs) }
               ELSE files,
        target |-> IF found THEN t ELSE 0,
        archives |-> arch,
        manifests |-> man]

\* BackupManager.restore_backup(ts) (ts = 0 is None: the latest backup);
\* extractOk = FALSE is an I/O error while extracting
restore_backup(ts, extractOk, files, arch, man) ==
    LET listed == list_backups(arch, man)
        t == IF ts # 0 THEN ts ELSE IF listed = <<>> THEN 0 ELSE listed[1]
        found == t # 0 /\ man[t].exists /\ man[t].valid /\ arch[t].exists
        ok == found /\ arch[t].complete /\ extractOk
    IN [ret |-> ok,
        fs |-> IF ok THEN files \cup { <<Basename(p)>> : p \in Range(arch[t].srcs) }
               ELSE files,
        target |-> IF found THEN t ELSE 0,
        archives |-> arch,
        manifests |-> man]

\* where an os.remove of delete_backup raises ("ok": nowhere)
DeleteStages == {"ok", "rm_archive", "rm_manifest"}

\* mutant: deleting one backup empties the whole backup directory
delete_backup_All(ts, st, arch, man) ==
    IF ~man[ts].exists \/ ~man[ts].valid
    THEN [ret |-> FALSE, archives |-> arch, manifests |-> man]
    ELSE [ret |-> TRUE,
          archives |-> [t \in Timestamps |-> NoArchive],
          manifests |-> [t \in Timestamps |-> NoManifest]]

\* mutant: only the manifest is removed, the archive stays on disk
delete_backup_KeepArchive(ts, st, arch, man) ==
    IF ~man[ts].exists \/ ~man[ts].valid
    THEN [ret |-> FALSE, archives |-> arch, manifests |-> man]
    ELSE IF st = "rm_manifest"
    THEN [ret |-> FALSE, archives |-> arch, manifests |-> man]
    ELSE [ret |-> TRUE, archives |-> arch,
          manifests |-> [man EXCEPT ![ts] = NoManifest]]

\* BackupManager.delete_backup(ts)
delete_backup(ts, st, arch, man) ==
    IF ~man[ts].exists \/ ~man[ts].valid
    THEN [ret |-> FALSE, archives |-> arch, manifests |-> man]
    ELSE IF arch[ts].exists /\ st = "rm_archive"
    THEN [ret |-> FALSE, archives |-> arch, manifests |-> man]
    ELSE LET arch1 == [arch EXCEPT ![ts] = NoArchive]
         IN IF st = "rm_manifest"
            THEN [ret |-> FALSE, archives |-> arch1, manifests |-> man]
            ELSE [ret |-> TRUE, archives |-> arch1,
                  manifests |-> [man EXCEPT ![ts] = NoManifest]]

\* backup_date < cutoff_date, with cutoff_date = now - timedelta(days=keep);
\* sub: a backup made within the cutoff's own second was made before the
\* cutoff instant
IsOld(created, now, keep, sub) ==
    created < now - keep \/ (created = now - keep /\ sub)

\* the loop of cleanup_old_backups over the listed backups
RECURSIVE CleanupLoop(_, _, _, _, _, _, _)
CleanupLoop(listed, now, keep, sub, stOf, arch, man) ==
    IF listed = <<>> THEN [deleted |-> 0, archives |-> arch, manifests |-> man]
    ELSE LET t == Head(listed)
             d == IF IsOld(man[t].created, now, keep, sub)
                  THEN delete_backup(t, stOf[t], arch, man)
                  ELSE [ret |-> FALSE, archives |-> arch, manifests |-> man]
             r == CleanupLoop(Tail(listed), now, keep, sub, stOf,
                              d.archives, d.manifests)
         IN [deleted |-> r.deleted + (IF d.ret THEN 1 ELSE 0),
             archives |-> r.archives, manifests |-> r.manifests]

\* mutant: the newest backup is kept whatever its age
cleanup_old_backups_SpareNewest(now, keep, sub, stOf, arch, man) ==
    LET listed == list_backups(arch, man)
        r == CleanupLoop(IF listed = <<>> THEN <<>> ELSE Tail(listed),
                         now, keep, sub, stOf, arch, man)
    IN [ret |-> TRUE, deleted |-> r.deleted,
        archives |-> r.archives, manifests |-> r.manifests]

\* BackupManager.cleanup_old_backups(days_to_keep)
cleanup_old_backups(now, keep, sub, stOf, arch, man) ==
    LET r == CleanupLoop(list_backups(arch, man), now, keep, sub, stOf, arch, man)
    IN [ret |-> TRUE, deleted |-> r.deleted,
        archives |-> r.archives, manifests |-> r.manifests]

\* the archive and the manifest are named after the timestamp alone
\* (component and directory are fixed for one BackupManager)
FileSlot(ts) == ts

\* tarfile.open(backup_path, "w:gz"): the file is created or truncated
archive_open(arch, slot) ==
    [arch EXCEPT ![slot] = [exists |-> TRUE, complete |-> FALSE, srcs |-> <<>>,
                            run |-> 0]]

\* mutant: the manifest is written inside the with-block, before the archive
\* is closed
archive_close_StillOpen(arch, slot, paths, files, intact) ==
    [arch EXCEPT ![slot] = [exists |-> TRUE, complete |-> FALSE,
                            srcs |-> <<>>, run |-> 0]]

\* the with-block of the archive ends: the members are written and the file
\* is closed; intact says whether the bytes on disk form one archive
archive_close(arch, slot, paths, files, intact) ==
    [arch EXCEPT ![slot] = [exists |-> TRUE, complete |-> intact,
                            srcs |-> IF intact THEN FilterIn(paths, files) ELSE <<>>,
                            run |-> 0]]

\* open(manifest_path, 'w'): the file is created or truncated
manifest_open(man, slot) ==
    [man EXCEPT ![slot] = [exists |-> TRUE, valid |-> FALSE, contents |-> <<>>,
                           created |-> 0, run |-> 0]]

\* json.dump and the end of the with-block: size bytes go to offset 0 of the
\* handle; bytes another handle wrote beyond them stay in the file, and then
\* the file is no JSON document
manifest_write(man, len, slot, paths, size, now) ==
    IF len[slot] <= size
    THEN [manifests |-> [man EXCEPT ![slot] = [exists |-> TRUE, valid |-> TRUE,
                                              contents |-> paths, created |-> now,
                                              run |-> 0]],
          mlen |-> [len EXCEPT ![slot] = size]]
    ELSE [manifests |-> [man EXCEPT ![slot] = [exists |-> TRUE, valid |-> FALSE,
                                              contents |-> <<>>, created |-> 0,
                                              run |-> 0]],
          mlen |-> len]

----------------------------------------------------------------------------
(* Phases owned by the orchestrator: uninstallers/base.py *)

Cmd(op, arg, ok) == [op |-> op, arg |-> arg, ok |-> ok]

StopOutcomes == {"ok", "nonzero", "timeout", "exception"}
RemoveOutcomes == {"ok", "nonzero", "exception"}

\* BaseUninstaller._stop_service_simple: true only when systemctl stop exits 0
_stop_service_simple(out) == out = "ok"

\* mutant: the loop gives up at the first stop command that fails
RECURSIVE StopLoop_AbortOnFailure(_, _, _, _)
StopLoop_AbortOnFailure(svcs, out, act, log) ==
    IF svcs = <<>> THEN [ret |-> TRUE, active |-> act, log |-> log]
    ELSE LET s == Head(svcs)
             q == Append(log, Cmd("is-active", s, s \in act))
         IN IF s \in act
            THEN IF _stop_service_simple(out[s])
                 THEN StopLoop_AbortOnFailure(Tail(svcs), out, act \ {s},
                                              Append(q, Cmd("stop", s, TRUE)))
                 ELSE [ret |-> FALSE, active |-> act,
                       log |-> Append(q, Cmd("stop", s, FALSE))]
            ELSE StopLoop_AbortOnFailure(Tail(svcs), out, act, q)

\* mutant: the stop command is issued whatever the status query returned
RECURSIVE StopLoop_Unconditional(_, _, _, _)
StopLoop_Unconditional(svcs, out, act, log) ==
    IF svcs = <<>> THEN [ret |-> TRUE, active |-> act, log |-> log]
    ELSE LET s == Head(svcs)
             q == Append(log, Cmd("is-active", s, s \in act))
             r == _stop_service_simple(out[s])
         IN StopLoop_Unconditional(Tail(svcs), out, IF r THEN act \ {s} ELSE act,
                                   Append(q, Cmd("stop", s, r)))

\* BaseUninstaller.stop_services: the loop over the services.  out[s] is the
\* outcome of the stop command of s; act is the set of active services.
RECURSIVE StopLoop(_, _, _, _)
StopLoop(svcs, out, act, log) ==
    IF svcs = <<>> THEN [ret |-> TRUE, active |-> act, log |-> log]
    ELSE LET s == Head(svcs)
             q == Append(log, Cmd("is-active", s, s \in act))
         IN IF s \in act
            THEN LET r == _stop_service_simple(out[s])
                 IN StopLoop(Tail(svcs), out, IF r THEN act \ {s} ELSE act,
                             Append(q, Cmd("stop", s, r)))
            ELSE StopLoop(Tail(svcs), out, act, q)

\* exc: an exception escapes inside the try block (before the loop)
stop_services(svcs, out, exc, act) ==
    IF exc THEN [ret |-> FALSE, active |-> act, log |-> <<>>]
    ELSE StopLoop(svcs, out, act, <<>>)

\* mutant: systemctl disable without check=True, a failure is not noticed
RECURSIVE disable_services_Unchecked(_, _, _)
disable_services_Unchecked(svcs, okOf, log) ==
    IF svcs = <<>> THEN [ret |-> TRUE, log |-> log]
    ELSE disable_services_Unchecked(Tail(svcs), okOf,
                                    Append(log, Cmd("disable", Head(svcs), okOf[Head(svcs)])))

\* BaseUninstaller.disable_services: systemctl disable with check=True, so
\* the first failing command raises and the phase returns False
RECURSIVE disable_services(_, _, _)
disable_services(svcs, okOf, log) ==
    IF svcs = <<>> THEN [ret |-> TRUE, log |-> log]
    ELSE LET s == Head(svcs)
         IN IF okOf[s]
            THEN disable_services(Tail(svcs), okOf, Append(log, Cmd("disable", s, TRUE)))
            ELSE [ret |-> FALSE, log |-> Append(log, Cmd("disable", s, FALSE))]

\* utils/package.py uninstall_package: a package that is not installed is a
\* success without any command; otherwise apt remove decides
uninstall_package(pkg, out, inst) ==
    IF pkg \notin inst
    THEN [ret |-> TRUE, installed |-> inst, log |-> <<Cmd("dpkg-l", pkg, FALSE)>>]
    ELSE [ret |-> out = "ok",
          installed |-> IF out = "ok" THEN inst \ {pkg} ELSE inst,
          log |-> <<Cmd("dpkg-l", pkg, TRUE), Cmd("remove", pkg, out = "ok")>>]

\* mutant: a failed removal is logged but the loop goes on
RECURSIVE uninstall_packages_KeepGoing(_, _, _, _, _)
uninstall_packages_KeepGoing(pkgs, out, autoOk, inst, log) ==
    IF pkgs = <<>>
    THEN [ret |-> TRUE, installed |-> inst,
          log |-> Append(log, Cmd("autoremove", "", autoOk))]
    ELSE LET r == uninstall_package(Head(pkgs), out[Head(pkgs)], inst)
         IN uninstall_packages_KeepGoing(Tail(pkgs), out, autoOk, r.installed,
                                         log \o r.log)

\* BaseUninstaller.uninstall_packages: the loop, then autoremove
RECURSIVE uninstall_packages(_, _, _, _, _)
uninstall_packages(pkgs, out, autoOk, inst, log) ==
    IF pkgs = <<>>
    THEN [ret |-> TRUE, installed |-> inst,
          log |-> Append(log, Cmd("autoremove", "", autoOk))]
    ELSE LET r == uninstall_package(Head(pkgs), out[Head(pkgs)], inst)
         IN IF r.ret
            THEN uninstall_packages(Tail(pkgs), out, autoOk, r.installed, log \o r.log)
            ELSE [ret |-> FALSE, installed |-> r.installed, log |-> log \o r.log]

\* BaseUninstaller.create_backup: delegates to the archive store
create_backup(pr, ts, st, files, arch, man, run) ==
    BackupManager_create_backup(get_backup_paths(pr, files), ts, st, files, arch, man, run)

----------------------------------------------------------------------------
(* Profile hooks *)

\* bytes of the files directly under path p
OwnSize(p) == 1

RECURSIVE SumSizes(_)
SumSizes(S) ==
    IF S = {} THEN 0
    ELSE LET p == CHOOSE x \in S : TRUE IN OwnSize(p) + SumSizes(S \ {p})

\* os.walk(p): every file below p
WalkSize(p, files) == SumSizes({q \in files : IsPrefix(p, q)})

RECURSIVE TotalSize(_, _)
TotalSize(paths, files) ==
    IF paths = <<>> THEN 0
    ELSE (IF Head(paths) \in files THEN WalkSize(Head(paths), files) ELSE 0)
         + TotalSize(Tail(paths), files)

\* mutant: the check for the nginx package is left out
nginx_pre_uninstall_checks_SpaceOnly(inst, files, free) ==
    IF free # -1 /\ free < TotalSize(get_backup_paths("nginx", files), files) + NginxBuffer
    THEN FALSE
    ELSE TRUE

\* NginxUninstaller.pre_uninstall_checks; free = -1: statvfs raised
nginx_pre_uninstall_checks(inst, files, free) ==
    IF "nginx" \notin inst THEN FALSE
    ELSE IF free # -1 /\ free < TotalSize(get_backup_paths("nginx", files), files) + NginxBuffer
         THEN FALSE
         ELSE TRUE

RECURSIVE PurgeAll(_, _, _, _)
PurgeAll(pkgs, okOf, inst, log) ==
    IF pkgs = <<>> THEN [installed |-> inst, log |-> log]
    ELSE LET p == Head(pkgs)
         IN PurgeAll(Tail(pkgs), okOf,
                     IF okOf THEN inst \ {p} ELSE inst,
                     Append(log, Cmd("purge", p, okOf)))

RECURSIVE RemoveTrees(_, _, _)
RemoveTrees(paths, files, log) ==
    IF paths = <<>> THEN [fs |-> files, log |-> log]
    ELSE LET p == Head(paths)
         IN IF p \in files
            THEN RemoveTrees(Tail(paths), {q \in files : ~IsPrefix(p, q)},
                             Append(log, Cmd("rm-rf", Basename(p), TRUE)))
            ELSE RemoveTrees(Tail(paths), files, log)

\* NginxUninstaller.post_uninstall_cleanup; lsofNginx: lsof -u www-data
\* exits 0 and names nginx
nginx_post_uninstall_cleanup(lsofNginx, purgeOk, exc, inst, files) ==
    IF exc THEN [ret |-> FALSE, installed |-> inst, fs |-> files, log |-> <<>>]
    ELSE LET rm == IF lsofNginx THEN RemoveTrees(NginxCleanupPaths, files, <<>>)
                   ELSE [fs |-> files, log |-> <<>>]
             pg == PurgeAll(NginxPackageNames, purgeOk, inst, rm.log)
         IN [ret |-> TRUE, installed |-> pg.installed, fs |-> rm.fs, log |-> pg.log]

----------------------------------------------------------------------------
(* The drivers: BaseUninstaller.uninstall and NginxUninstaller.uninstall *)

Phases == <<"pre_uninstall_checks", "create_backup", "stop_services",
            "disable_services", "uninstall_packages", "post_uninstall_cleanup">>

PhaseIndex(ph) == CHOOSE i \in DOMAIN Phases : Phases[i] = ph

\* mutant: the result of create_backup is not tested
BaseUninstallNext_NoBackupGate(ph, ok) ==
    IF ~ok /\ ph # "create_backup" THEN "return_false"
    ELSE IF ph = "post_uninstall_cleanup" THEN "return_true"
         ELSE Phases[PhaseIndex(ph) + 1]

\* mutant: a failed package removal is tried again
BaseUninstallNext_RetryRemoval(ph, ok) ==
    IF ~ok /\ ph = "uninstall_packages" THEN "uninstall_packages"
    ELSE IF ~ok THEN "return_false"
         ELSE IF ph = "post_uninstall_cleanup" THEN "return_true"
              ELSE Phases[PhaseIndex(ph) + 1]

\* mutant: a failed package removal only skips to the cleanup
BaseUninstallNext_CleanupAnyway(ph, ok) ==
    IF ~ok /\ ph = "uninstall_packages" THEN "post_uninstall_cleanup"
    ELSE IF ~ok THEN "return_false"
         ELSE IF ph = "post_uninstall_cleanup" THEN "return_true"
              ELSE Phases[PhaseIndex(ph) + 1]

\* what BaseUninstaller.uninstall does once phase ph has returned ok:
\* the next phase, or the value it returns
BaseUninstallNext(ph, ok) ==
    IF ~ok THEN "return_false"
    ELSE IF ph = "post_uninstall_cleanup" THEN "return_true"
         ELSE Phases[PhaseIndex(ph) + 1]

\* mutant: the result of the pre-check is not tested
NginxUninstallNext_IgnorePreCheck(ph, ok) ==
    IF ph \in {"stop_services", "pre_uninstall_checks"} THEN Phases[PhaseIndex(ph) + 1]
    ELSE IF ~ok THEN "return_false"
         ELSE IF ph = "post_uninstall_cleanup" THEN "final_verification"
              ELSE Phases[PhaseIndex(ph) + 1]

\* NginxUninstaller.uninstall: a failed stop is only a warning, and the
\* ports are inspected before returning True
NginxUninstallNext(ph, ok) ==
    IF ph = "stop_services" THEN "disable_services"
    ELSE IF ~ok THEN "return_false"
         ELSE IF ph = "post_uninstall_cleanup" THEN "final_verification"
              ELSE Phases[PhaseIndex(ph) + 1]

UninstallNext(pr, ph, ok) ==
    IF pr = "nginx" THEN NginxUninstallNext(ph, ok) ELSE BaseUninstallNext(ph, ok)

\* mutant: a failed cleanup restores the latest backup before returning
FailureRestores_AfterCleanup(ph) ==
    IF ph = "post_uninstall_cleanup"
    THEN << [caller |-> "uninstall", restoreRet |-> TRUE, ret |-> TRUE] >>
    ELSE <<>>

\* the restores uninstall() performs on its way out after phase ph failed:
\* every failure branch only logs and returns False
FailureRestores(ph) == <<>>

\* the run has invoked phase ph, which returned ok
Advance(ph, ok) ==
    LET nx == UninstallNext(profile, ph, ok)
    IN /\ calls' = Append(calls, ph)
       /\ rets' = Append(rets, ok)
       /\ lastRestore' = IF nx = "return_false" /\ FailureRestores(ph) # <<>>
                         THEN FailureRestores(ph)
                         ELSE lastRestore
       /\ IF nx = "return_false" THEN pc' = "done" /\ result' = "false"
          ELSE IF nx = "return_true" THEN pc' = "done" /\ result' = "true"
               ELSE pc' = nx /\ result' = result

pre_uninstall_checks(pr, hookOk, inst, files, free) ==
    IF pr = "nginx" THEN nginx_pre_uninstall_checks(inst, files, free) ELSE hookOk

FreeChoices == {-1, 0} \cup {NginxBuffer + k : k \in 0..MaxFreeExtra}

\* BaseUninstaller.rollback: returns what the archive store's restore returns
rollback(ts, extractOk, files, arch, man) ==
    LET r == restore_backup(ts, extractOk, files, arch, man)
    IN [ret |-> r.ret, restoreRet |-> r.ret, fs |-> r.fs]

\* the sets of ports a behaviour may find in use
BusyChoices == {{}, {80}, CommonPorts}

\* the ports NginxUninstaller.uninstall inspects, in order
PortList == <<80, 443, 8080>>
PortArg == <<"80", "443", "8080">>

\* get_processes_using_port for each port: netstat (and lsof) are read, an
\* error yields the empty list; ok: a listener was found
PortLog(busy) == [i \in DOMAIN PortList |-> Cmd("netstat", PortArg[i], PortList[i] \in busy)]

\* mutant: a port still in use makes uninstall() return False
nginx_final_verification_FailsWhenBusy(busy) ==
    [ret |-> IF busy = {} THEN "true" ELSE "false", log |-> PortLog(busy)]

\* the final verification of NginxUninstaller.uninstall: a port in use is
\* logged as a warning, then uninstall() returns True
nginx_final_verification(busy) == [ret |-> "true", log |-> PortLog(busy)]

----------------------------------------------------------------------------
(* Initial states *)

Init ==
    /\ profile \in Profiles
    /\ services = get_service_names(profile)
    /\ packages = get_package_names(profile)
    /\ installed \in {Range(packages), {packages[1]}, {}}
    /\ active \in {Range(services), {services[1]}, {}}
    /\ fs \in IF profile = "nginx" THEN NginxFilesystems ELSE BaseFilesystems
    /\ clock = 1
    /\ archives = [t \in Timestamps |-> NoArchive]
    /\ manifests = [t \in Timestamps |-> NoManifest]
    /\ pc = "idle"
    /\ runId = 0
    /\ calls = <<>>
    /\ rets = <<>>
    /\ backupPath = 0
    /\ cmds = <<>>
    /\ result = "none"
    /\ lastRestore = <<>>
    /\ lastOp = NoCall
    /\ listing = NoListing
    /\ returned = {}
    /\ made = 0
    /\ ExtIdle

----------------------------------------------------------------------------
(* Actions *)

\* the menu constructs the uninstaller and calls uninstall()
StartUninstall ==
    /\ pc = "idle"
    /\ runId < MaxRuns
    /\ runId' = runId + 1
    /\ pc' = "pre_uninstall_checks"
    /\ UNCHANGED <<cfgVars, callVars, extVars,
                   osVars, clock, storeVars, calls, rets, backupPath,
                   cmds, result, lastRestore>>

\* uninstall() has returned: the menu shows the outcome and the uninstaller,
\* with everything the run held, is dropped
ReturnToMenu ==
    /\ pc = "done"
    /\ pc' = "idle"
    /\ calls' = <<>>
    /\ rets' = <<>>
    /\ backupPath' = 0
    /\ cmds' = <<>>
    /\ result' = "none"
    /\ UNCHANGED <<cfgVars, callVars, extVars,
                   osVars, clock, storeVars, runId, lastRestore>>

PreCheck ==
    /\ pc = "pre_uninstall_checks"
    /\ \E hookOk \in BOOLEAN, free \in FreeChoices :
          Advance("pre_uninstall_checks",
                  pre_uninstall_checks(profile, hookOk, installed, fs, free))
    /\ UNCHANGED <<cfgVars, callVars, extVars,
                   osVars, clock, storeVars, runId, backupPath, cmds>>

Backup ==
    /\ pc = "create_backup"
    /\ \E st \in BackupStages :
          LET r == create_backup(profile, clock, st, fs, archives, manifests, runId)
          IN /\ archives' = r.archives
             /\ manifests' = r.manifests
             /\ backupPath' = r.ret
             /\ Advance("create_backup", r.ret # 0)
    /\ UNCHANGED <<cfgVars, callVars, extVars,
                   osVars, clock, runId, cmds>>

StopServices ==
    /\ pc = "stop_services"
    /\ \E out \in [Range(services) -> StopOutcomes], exc \in BOOLEAN :
          LET r == stop_services(services, out, exc, active)
          IN /\ active' = r.active
             /\ cmds' = cmds \o r.log
             /\ Advance("stop_services", r.ret)
    /\ UNCHANGED <<cfgVars, callVars, extVars,
                   installed, fs, clock, storeVars, runId, backupPath>>

DisableServices ==
    /\ pc = "disable_services"
    /\ \E okOf \in [Range(services) -> BOOLEAN] :
          LET r == disable_services(services, okOf, <<>>)
          IN /\ cmds' = cmds \o r.log
             /\ Advance("disable_services", r.ret)
    /\ UNCHANGED <<cfgVars, callVars, extVars,
                   osVars, clock, storeVars, runId, backupPath>>

UninstallPackages ==
    /\ pc = "uninstall_packages"
    /\ \E out \in [Range(packages) -> RemoveOutcomes], autoOk \in BOOLEAN :
          LET r == uninstall_packages(packages, out, autoOk, installed, <<>>)
          IN /\ installed' = r.installed
             /\ cmds' = cmds \o r.log
             /\ Advance("uninstall_packages", r.ret)
    /\ UNCHANGED <<cfgVars, callVars, extVars,
                   active, fs, clock, storeVars, runId, backupPath>>

PostCleanup ==
    /\ pc = "post_uninstall_cleanup"
    /\ IF profile = "nginx"
       THEN \E lsofNginx \in BOOLEAN, purgeOk \in BOOLEAN,
               exc \in BOOLEAN :
               LET r == nginx_post_uninstall_cleanup(lsofNginx, purgeOk, exc, installed, fs)
               IN /\ installed' = r.installed
                  /\ fs' = r.fs
                  /\ cmds' = cmds \o r.log
                  /\ Advance("post_uninstall_cleanup", r.ret)
       ELSE \E hookOk \in BOOLEAN :
               /\ Advance("post_uninstall_cleanup", hookOk)
               /\ UNCHANGED <<installed, fs, cmds>>
    /\ UNCHANGED <<cfgVars, callVars, extVars,
                   active, clock, storeVars, runId, backupPath>>

\* NginxUninstaller.uninstall, after the last phase; busy: the ports
\* get_processes_using_port finds a listener on
FinalVerification ==
    /\ pc = "final_verification"
    /\ \E busy \in BusyChoices :
          LET r == nginx_final_verification(busy)
          IN /\ pc' = "done"
             /\ result' = r.ret
             /\ cmds' = cmds \o r.log
    /\ UNCHANGED <<cfgVars, callVars, extVars,
                   osVars, clock, storeVars, runId, calls, rets,
                   backupPath, lastRestore>>

\* an explicit rollback(ts) call on the uninstaller (ts = 0: no timestamp
\* given), before a run or after uninstall() has returned
Rollback ==
    /\ pc \in {"idle", "done"}
    /\ \E ts \in 0..MaxTime, extractOk \in BOOLEAN :
          LET r == rollback(ts, extractOk, fs, archives, manifests)
          IN /\ fs' = r.fs
             /\ lastRestore' = << [caller |-> "rollback",
                                   restoreRet |-> r.restoreRet, ret |-> r.ret] >>
    /\ UNCHANGED <<cfgVars, callVars, extVars,
                   installed, active, clock, storeVars, pc, runId,
                   calls, rets, backupPath, cmds, result>>

\* the rollback menu restores a backup picked from list_backups
RollbackMenu ==
    /\ pc = "idle"
    /\ \E i \in DOMAIN list_backups(archives, manifests), extractOk \in BOOLEAN :
          LET ts == list_backups(archives, manifests)[i]
              r == restore_backup(ts, extractOk, fs, archives, manifests)
          IN /\ fs' = r.fs
             /\ lastRestore' = << [caller |-> "rollback_menu",
                                   restoreRet |-> r.ret, ret |-> r.ret] >>
    /\ UNCHANGED <<cfgVars, callVars, extVars,
                   installed, active, clock, storeVars, pc, runId,
                   calls, rets, backupPath, cmds, result>>

\* a second passes; the clock is read by create_backup only
Tick ==
    /\ pc = "create_backup"
    /\ clock < MaxTime
    /\ clock' = clock + 1
    /\ UNCHANGED <<cfgVars, callVars, extVars,
                   osVars, storeVars, pc, runId, calls, rets,
                   backupPath, cmds, result, lastRestore>>

Next ==
    \/ StartUninstall
    \/ ReturnToMenu
    \/ PreCheck
    \/ Backup
    \/ StopServices
    \/ DisableServices
    \/ UninstallPackages
    \/ PostCleanup
    \/ FinalVerification
    \/ Rollback
    \/ RollbackMenu
    \/ Tick

Spec == Init /\ [][Next]_vars

TypeOK ==
    /\ profile \in Profiles
    /\ pc \in {"idle", "done", "final_verification"} \cup Range(Phases)
    /\ result \in {"none", "true", "false"}
    /\ clock \in Timestamps
    /\ backupPath \in 0..MaxTime
    /\ Len(calls) = Len(rets)

----------------------------------------------------------------------------
(* Properties of the uninstall() run *)

DestructivePhases == {"stop_services", "disable_services", "uninstall_packages",
                      "post_uninstall_cleanup"}
HardPhases == {"pre_uninstall_checks", "create_backup", "disable_services",
               "uninstall_packages", "post_uninstall_cleanup"}

\* create_backup returned a non-empty path among the first n invocations
BackedUpWithin(n) ==
    /\ backupPath # 0
    /\ \E j \in 1..n : j \in DOMAIN calls /\ calls[j] = "create_backup" /\ rets[j]

CmdsOf(ops) == SelectSeq(cmds, LAMBDA c : c.op \in ops)
Last(s) == s[Len(s)]

\* C1: no destructive phase (stop, disable, remove, cleanup) is invoked, and
\* no command is issued, unless create_backup has returned a non-empty
\* archive path earlier in the same run.
C1_BackupGate ==
    /\ \A i \in DOMAIN calls :
          calls[i] \in DestructivePhases => BackedUpWithin(i - 1)
    /\ pc \in DestructivePhases => BackedUpWithin(Len(calls))
    /\ cmds # <<>> => BackedUpWithin(Len(calls))

C1_Witness ==
    /\ \E i \in DOMAIN calls : calls[i] = "uninstall_packages"
    /\ \E i \in DOMAIN cmds : cmds[i].op = "remove"
    /\ backupPath # 0

\* C2: the phases are invoked in the fixed order pre-check, backup, stop,
\* disable, remove, cleanup: the invoked phases are always an initial part of
\* that list (so none is repeated or skipped), and the phase about to run is
\* the one after the last invoked.
C2_PhaseOrder ==
    /\ Len(calls) <= Len(Phases)
    /\ \A i \in DOMAIN calls : calls[i] = Phases[i]
    /\ pc \in Range(Phases) => pc = Phases[Len(calls) + 1]

C2_Witness == pc = "done" /\ calls = Phases

\* C3: a failed pre-check ends the run with False and without side effects:
\* no other phase is invoked, create_backup has returned nothing, no archive
\* or manifest of this run exists, and no command was issued.
C3_PreCheckFailure ==
    (calls # <<>> /\ ~rets[1]) =>
        /\ pc = "done"
        /\ result = "false"
        /\ calls = <<"pre_uninstall_checks">>
        /\ backupPath = 0
        /\ cmds = <<>>
        /\ \A t \in Timestamps :
              /\ archives[t].exists => archives[t].run # runId
              /\ manifests[t].exists => manifests[t].run # runId

C3_Witness ==
    /\ profile = "nginx"
    /\ "nginx" \in installed
    /\ pc = "done"
    /\ rets = <<FALSE>>

\* C4: the first hard failure (pre-check, backup, disable, remove, cleanup)
\* is the last phase invoked and makes uninstall() return False; uninstall()
\* returns True only when each of these phases was invoked and returned a
\* true / non-empty result.
C4_ShortCircuit ==
    /\ \A i \in DOMAIN calls :
          (calls[i] \in HardPhases /\ ~rets[i]) =>
              i = Len(calls) /\ pc = "done" /\ result = "false"
    /\ result = "true" =>
          \A ph \in HardPhases : \E i \in DOMAIN calls : calls[i] = ph /\ rets[i]

C4_Witness ==
    /\ pc = "done"
    /\ result = "false"
    /\ Len(calls) = 5
    /\ calls[5] = "uninstall_packages"
    /\ ~rets[5]

\* C5: whatever stop_services returns, the run goes on to disable_services
\* (as stated for every profile; the base driver does not do so).
C5_StopNeverFatal ==
    \A i \in DOMAIN calls :
        calls[i] = "stop_services" => (pc = "disable_services" \/ Len(calls) > i)

\* C6: once a stop command has failed, stop_services has still queried every
\* service of the list, in order, and has returned True.
C6_StopTolerant ==
    (\E i \in DOMAIN cmds : cmds[i].op = "stop" /\ ~cmds[i].ok) =>
        /\ Len(calls) >= 3
        /\ calls[3] = "stop_services"
        /\ rets[3]
        /\ Len(CmdsOf({"is-active"})) = Len(services)
        /\ \A k \in DOMAIN services : CmdsOf({"is-active"})[k].arg = services[k]

C6_Witness ==
    /\ Len(CmdsOf({"stop"})) = 2
    /\ ~CmdsOf({"stop"})[1].ok
    /\ CmdsOf({"stop"})[2].ok
    /\ rets[3]

\* C7: once a disable command has failed, disable_services has returned
\* False, it is the last phase invoked, uninstall() has returned False and no
\* package command was issued.
C7_DisableFatal ==
    (\E i \in DOMAIN cmds : cmds[i].op = "disable" /\ ~cmds[i].ok) =>
        /\ Len(calls) = 4
        /\ calls[4] = "disable_services"
        /\ ~rets[4]
        /\ pc = "done"
        /\ result = "false"
        /\ CmdsOf({"dpkg-l", "remove", "autoremove", "purge", "rm-rf"}) = <<>>

C7_Witness ==
    /\ Len(CmdsOf({"disable"})) = 2
    /\ CmdsOf({"disable"})[1].ok
    /\ ~CmdsOf({"disable"})[2].ok
    /\ result = "false"

\* C8: uninstall_packages attempts the packages in list order; a failed
\* removal is the last package command (no later package, no autoremove) and
\* the phase returns False; without a failed removal every package was
\* attempted, autoremove ran exactly once and the phase returned True.
C8_PackageRemoval ==
    (Len(calls) >= 5 /\ calls[5] = "uninstall_packages") =>
        LET pk == CmdsOf({"dpkg-l", "remove", "autoremove"})
            tried == CmdsOf({"dpkg-l"})
            failed == \E i \in DOMAIN pk : pk[i].op = "remove" /\ ~pk[i].ok
        IN /\ Len(tried) <= Len(packages)
           /\ \A k \in DOMAIN tried : tried[k].arg = packages[k]
           /\ failed => /\ Last(pk).op = "remove" /\ ~Last(pk).ok
                        /\ Len(CmdsOf({"remove"})) = Len(SelectSeq(pk, LAMBDA c : c.op = "remove" /\ c.ok)) + 1
                        /\ CmdsOf({"autoremove"}) = <<>>
                        /\ ~rets[5]
           /\ ~failed => /\ Len(tried) = Len(packages)
                         /\ Len(CmdsOf({"autoremove"})) = 1
                         /\ Last(pk).op = "autoremove"
                         /\ rets[5]

C8_Witness ==
    /\ Len(calls) >= 5
    /\ ~rets[5]
    /\ Len(CmdsOf({"remove"})) = 2
    /\ CmdsOf({"remove"})[1].ok
    /\ Len(CmdsOf({"dpkg-l"})) < Len(packages)

\* C9: a restore is never made by uninstall(): every restore_backup call
\* comes from an explicit rollback() or from the rollback menu, and
\* rollback() returns what restore_backup returned.
C9_RollbackExplicit ==
    \A i \in DOMAIN lastRestore :
        /\ lastRestore[i].caller \in {"rollback", "rollback_menu"}
        /\ lastRestore[i].caller = "rollback" =>
              lastRestore[i].ret = lastRestore[i].restoreRet

C9_Witness ==
    /\ pc = "done"
    /\ result = "false"
    /\ Last(calls) = "post_uninstall_cleanup"
    /\ lastRestore # <<>>
    /\ lastRestore[1].caller = "rollback"
    /\ lastRestore[1].ret

\* C10: when uninstall() has returned True, the archive and the manifest
\* written by this run exist, and the manifest lists every path that was put
\* into the archive and every backup path that exists.
C10_BackupExists ==
    result = "true" =>
        /\ backupPath # 0
        /\ archives[backupPath].exists
        /\ archives[backupPath].complete
        /\ archives[backupPath].run = runId
        /\ manifests[backupPath].exists
        /\ manifests[backupPath].valid
        /\ manifests[backupPath].run = runId
        /\ Range(archives[backupPath].srcs) \subseteq Range(manifests[backupPath].contents)
        /\ \A p \in fs :
              p \in Range(BaseBackupPaths) \cup Range(NginxBackupCandidates) =>
                  p \in Range(manifests[backupPath].contents)

C10_Witness ==
    /\ result = "true"
    /\ archives[backupPath].srcs # <<>>
    /\ Len(archives[backupPath].srcs) < Len(manifests[backupPath].contents)

----------------------------------------------------------------------------
(* The archive store driven directly: BackupManager("test") used the way  *)
(* the rollback and maintenance code and the unit tests use it, one call   *)
(* per step, with time passing in between.                                 *)

MaxKeep == 1
MaxBackups == 2

\* the path lists handed to create_backup
PathLists == { <<>>, BaseBackupPaths }

StoreInit ==
    /\ profile = "base"
    /\ services = get_service_names(profile)
    /\ packages = get_package_names(profile)
    /\ installed = {}
    /\ active = {}
    /\ fs = {BaseBackupPaths[1]}
    /\ clock = 1
    /\ archives = [t \in Timestamps |-> NoArchive]
    /\ manifests = [t \in Timestamps |-> NoManifest]
    /\ pc = "idle"
    /\ runId = 0
    /\ calls = <<>>
    /\ rets = <<>>
    /\ backupPath = 0
    /\ cmds = <<>>
    /\ result = "none"
    /\ lastRestore = <<>>
    /\ lastOp = NoCall
    /\ listing = NoListing
    /\ returned = {}
    /\ made = 0
    /\ ExtIdle

\* the timestamps whose archive or manifest differs between two stores
Touched(arch, man, arch1, man1) ==
    { t \in Timestamps : arch1[t] # arch[t] \/ man1[t] # man[t] }

CreateBackup ==
    \E paths \in PathLists, st \in BackupStages :
        LET r == BackupManager_create_backup(paths, clock, st, fs, archives,
                                             manifests, 0)
        IN /\ made < MaxBackups
           /\ made' = made + 1
           /\ archives' = r.archives
           /\ manifests' = r.manifests
           /\ lastOp' = [NoCall EXCEPT !.op = "create", !.ts = clock, !.io = st,
                                       !.ret = (r.ret # 0), !.paths = paths]
           /\ returned' = IF r.ret # 0 THEN returned \cup {clock}
                          ELSE returned \ Touched(archives, manifests,
                                                  r.archives, r.manifests)
           /\ listing' = NoListing
           /\ UNCHANGED <<cfgVars, extVars, osVars, clock, runVars>>

ListBackups ==
    \E order \in DirOrders :
        /\ listing' = [valid |-> TRUE,
                       entries |-> list_backups_in(order, archives, manifests),
                       again |-> listing.valid]
        /\ lastOp' = [NoCall EXCEPT !.op = "list", !.ret = TRUE]
        /\ UNCHANGED <<cfgVars, extVars, osVars, clock, storeVars, runVars, returned, made>>

RestoreBackup ==
    \E ts \in 0..MaxTime, extractOk \in BOOLEAN :
        LET r == restore_backup(ts, extractOk, fs, archives, manifests)
        IN /\ (~extractOk) => (r.target # 0 /\ archives[r.target].complete)
           /\ fs' = r.fs
           /\ archives' = r.archives
           /\ manifests' = r.manifests
           /\ lastOp' = [NoCall EXCEPT !.op = "restore", !.ts = ts, !.ret = r.ret,
                                       !.io = IF extractOk THEN "ok" ELSE "extract",
                                       !.target = r.target]
           /\ returned' = returned \ Touched(archives, manifests,
                                             r.archives, r.manifests)
           /\ UNCHANGED <<cfgVars, extVars, installed, active, clock, runVars, listing, made>>

DeleteBackup ==
    \E ts \in Timestamps, st \in DeleteStages :
        LET r == delete_backup(ts, st, archives, manifests)
        IN /\ st # "ok" => manifests[ts].valid
           /\ st = "rm_archive" => archives[ts].exists
           /\ archives' = r.archives
           /\ manifests' = r.manifests
           /\ lastOp' = [NoCall EXCEPT !.op = "delete", !.ts = ts, !.io = st,
                                       !.ret = r.ret]
           /\ returned' = returned \ Touched(archives, manifests,
                                             r.archives, r.manifests)
           /\ listing' = NoListing
           /\ UNCHANGED <<cfgVars, extVars, osVars, clock, runVars, made>>

\* at most one removal of a call fails: that of victim, at stage st; sub is
\* drawn only when a listed backup was made in the cutoff's own second
CleanupOldBackups ==
    \E keep \in 0..MaxKeep, sub \in BOOLEAN, victim \in Timestamps,
       st \in DeleteStages :
        LET listed == list_backups(archives, manifests)
            stOf == [t \in Timestamps |-> IF t = victim THEN st ELSE "ok"]
            r == cleanup_old_backups(clock, keep, sub, stOf, archives, manifests)
        IN /\ keep = 0 => sub
           /\ (~sub) => \E t \in Range(listed) : manifests[t].created = clock - keep
           /\ IF st = "ok" THEN victim = 1
              ELSE /\ victim \in Range(listed)
                   /\ IsOld(manifests[victim].created, clock, keep, sub)
           /\ archives' = r.archives
           /\ manifests' = r.manifests
           /\ lastOp' = [NoCall EXCEPT !.op = "cleanup", !.ts = clock, !.ret = r.ret,
                                       !.keep = keep, !.sub = sub, !.stOf = stOf,
                                       !.deleted = r.deleted]
           /\ returned' = returned \ Touched(archives, manifests,
                                             r.archives, r.manifests)
           /\ listing' = NoListing
           /\ UNCHANGED <<cfgVars, extVars, osVars, clock, runVars, made>>

\* a second passes
Elapse ==
    /\ clock < MaxTime
    /\ clock' = clock + 1
    /\ lastOp' = [NoCall EXCEPT !.op = "wait"]
    /\ UNCHANGED <<cfgVars, extVars, osVars, storeVars, runVars, listing, returned, made>>

StoreNext ==
    \/ CreateBackup
    \/ ListBackups
    \/ RestoreBackup
    \/ DeleteBackup
    \/ CleanupOldBackups
    \/ Elapse

StoreSpec == StoreInit /\ [][StoreNext]_vars

StoreTypeOK ==
    /\ clock \in Timestamps
    /\ returned \subseteq Timestamps
    /\ lastOp.op \in {"none", "create", "list", "restore", "delete", "cleanup",
                      "wait"}
    /\ \A t \in returned : archives[t].complete /\ manifests[t].valid

----------------------------------------------------------------------------
(* Properties of the archive store *)

\* C11: round trip.  After a restore_backup of the backup this run made has
\* returned True, every path that existed when it was handed to create_backup
\* exists again at its original absolute location, and the manifest's
\* contents holds the paths that were passed.  (Specification Spec: the
\* uninstall removes the paths, the explicit rollback restores them.)
C11_RoundTrip ==
    (pc = "done" /\ backupPath # 0 /\ lastRestore # <<>> /\ lastRestore[1].ret) =>
        /\ \A p \in Range(archives[backupPath].srcs) : p \in fs
        /\ Range(archives[backupPath].srcs)
               \subseteq Range(manifests[backupPath].contents)

\* the archive or the manifest of timestamp t differs after the step
Changes(t) == archives'[t] # archives[t] \/ manifests'[t] # manifests[t]

\* C12 as stated: once create_backup has returned an archive path, only a
\* delete_backup or a cleanup_old_backups step changes that archive or its
\* manifest.
C12_Immutable ==
    [][\A t \in returned :
          Changes(t) => lastOp'.op \in {"delete", "cleanup"}]_vars

\* C12, amended: once create_backup has returned the archive path of
\* timestamp t, that archive and its manifest are changed only by
\* delete_backup(t), by a cleanup_old_backups for which t is older than the
\* cutoff, or by a create_backup that reads the same timestamp t from the
\* clock; list_backups, restore_backup and a create_backup under any other
\* timestamp leave them as they are.
C12_ImmutableUnlessSameSecond ==
    [][\A t \in returned :
          Changes(t) =>
              \/ lastOp'.op = "delete" /\ lastOp'.ts = t
              \/ /\ lastOp'.op = "cleanup"
                 /\ IsOld(manifests[t].created, clock, lastOp'.keep, lastOp'.sub)
              \/ lastOp'.op = "create" /\ lastOp'.ts = t]_vars

\* an earlier backup is intact after a later create_backup returned its path
C12_Witness ==
    /\ lastOp.op = "create"
    /\ lastOp.ret
    /\ \E t \in returned : t < lastOp.ts

\* C13: what list_backups returned is sorted by timestamp, newest first,
\* whatever order the directory listing came in: every entry's timestamp is
\* at least that of the entry after it, so the first entry is the newest.
C13_NewestFirst ==
    listing.valid =>
        /\ \A i \in 1..(Len(listing.entries) - 1) :
              listing.entries[i] >= listing.entries[i + 1]
        /\ \A t \in Range(listing.entries) : listing.entries[1] >= t

C13_Witness ==
    /\ listing.valid
    /\ Len(listing.entries) >= 2

\* the manifests on disk whose archive file exists
WithArchive == { t \in Timestamps : manifests[t].exists /\ archives[t].exists }

\* C14 as stated: list_backups returns exactly the manifests whose archive
\* file exists.
C14_ListedIffArchive ==
    listing.valid => Range(listing.entries) = WithArchive

\* C14, amended: every entry list_backups returns has its archive on disk,
\* and list_backups returns exactly the manifests that can be read and whose
\* archive file exists; a manifest without its archive is never returned,
\* and neither is a manifest that cannot be parsed.
C14_ListedIffReadableWithArchive ==
    listing.valid =>
        /\ \A t \in Range(listing.entries) : archives[t].exists
        /\ Range(listing.entries) = { t \in WithArchive : manifests[t].valid }

\* a listing that reports one backup and leaves out a manifest whose archive
\* is gone
C14_Witness ==
    /\ listing.valid
    /\ listing.entries # <<>>
    /\ \E t \in Timestamps : manifests[t].valid /\ ~archives[t].exists

\* C15: list_backups is idempotent and read-only: a call changes no archive
\* and no manifest, and when no create_backup, delete_backup or
\* cleanup_old_backups came after the previous call it returns the same
\* entries in the same order as that call, whatever the directory order.
C15_ListIdempotent ==
    [][lastOp'.op = "list" =>
          /\ archives' = archives
          /\ manifests' = manifests
          /\ listing.valid => listing'.entries = listing.entries]_vars

\* a second listing, of two backups, with no write since the first
C15_Witness ==
    /\ lastOp.op = "list"
    /\ listing.again
    /\ Len(listing.entries) >= 2

\* C16: restoring does not erase history: after restore_backup(T), whether
\* it returned True or False, list_backups reports the same backups as
\* before the call, the one for T included.
C16_RestoreKeepsHistory ==
    [][lastOp'.op = "restore" =>
          /\ list_backups(archives', manifests') = list_backups(archives, manifests)
          /\ (lastOp'.target # 0 =>
                 lastOp'.target \in Range(list_backups(archives', manifests')))]_vars

\* a restore that returned True, of a backup that is still listed
C16_Witness ==
    /\ lastOp.op = "restore"
    /\ lastOp.ret
    /\ lastOp.target \in Range(list_backups(archives, manifests))

\* what extracting the archive of timestamp t adds to the filesystem
Extracted(t) == { <<Basename(p)>> : p \in Range(archives[t].srcs) }

\* C17: restore_backup with no timestamp restores the backup list_backups
\* returns first, the one with the greatest timestamp; restore_backup
\* returns False and extracts nothing when there is no backup at all, when
\* the manifest of the requested timestamp does not exist, or when that
\* manifest exists and its archive file is missing.
C17_RestoreSelection ==
    [][lastOp'.op = "restore" =>
          LET req == lastOp'.ts
              listed == list_backups(archives, manifests)
          IN /\ (req = 0 /\ listed # <<>>) =>
                    /\ lastOp'.target = listed[1]
                    /\ \A t \in Range(listed) : t <= lastOp'.target
                    /\ lastOp'.ret => fs' = fs \cup Extracted(listed[1])
             /\ (\/ req = 0 /\ listed = <<>>
                 \/ req # 0 /\ ~manifests[req].exists
                 \/ req # 0 /\ manifests[req].exists /\ ~archives[req].exists) =>
                    /\ ~lastOp'.ret
                    /\ lastOp'.target = 0
                    /\ fs' = fs]_vars

\* a restore with no timestamp that returned True with two backups listed
C17_Witness ==
    /\ lastOp.op = "restore"
    /\ lastOp.ts = 0
    /\ lastOp.ret
    /\ Len(list_backups(archives, manifests)) >= 2

\* the listing with timestamp T left out
Without(entries, T) == SelectSeq(entries, LAMBDA t : t # T)

BeforeCutoff(t, call) ==
    \/ manifests[t].created < clock - call.keep
    \/ manifests[t].created = clock - call.keep /\ call.sub

\* C19: cleanup_old_backups(days_to_keep) selects by age only.  It returns
\* True; every listed backup whose created_at is earlier than now minus
\* days_to_keep is deleted (unless the removal of its files raises); no other
\* backup is touched; the newest backup is deleted like any other when it is
\* that old; and the number of backups counted as deleted is the number
\* that went away.
C19_CleanupByAge ==
    [][lastOp'.op = "cleanup" =>
          LET listed == Range(list_backups(archives, manifests))
              old == { t \in listed : BeforeCutoff(t, lastOp') }
              gone == { t \in Timestamps :
                          manifests[t].exists /\ ~manifests'[t].exists }
          IN /\ lastOp'.ret
             /\ \A t \in old :
                   lastOp'.stOf[t] = "ok" =>
                       ~manifests'[t].exists /\ ~archives'[t].exists
             /\ \A t \in Timestamps \ old :
                   manifests'[t] = manifests[t] /\ archives'[t] = archives[t]
             /\ gone \subseteq old
             /\ lastOp'.deleted = Cardinality(gone)]_vars

\* a cleanup that deleted a backup and kept a newer one
C19_Witness ==
    /\ lastOp.op = "cleanup"
    /\ lastOp.deleted >= 1
    /\ list_backups(archives, manifests) # <<>>

\* C20: create_backup with an empty path list still succeeds (no I/O error
\* in the call): it returns the archive path, and afterwards a complete
\* archive with no member and a manifest whose contents is the empty list
\* exist for its timestamp and list_backups reports them.
C20_EmptyBackup ==
    (lastOp.op = "create" /\ lastOp.paths = <<>> /\ lastOp.io = "ok") =>
        /\ lastOp.ret
        /\ lastOp.ts \in returned
        /\ archives[lastOp.ts].exists
        /\ archives[lastOp.ts].complete
        /\ archives[lastOp.ts].srcs = <<>>
        /\ manifests[lastOp.ts].exists
        /\ manifests[lastOp.ts].valid
        /\ manifests[lastOp.ts].contents = <<>>
        /\ lastOp.ts \in Range(list_backups(archives, manifests))

C20_Witness ==
    /\ lastOp.op = "create"
    /\ lastOp.paths = <<>>
    /\ lastOp.ret
    /\ manifests[lastOp.ts].contents = <<>>

\* C21: a path that does not exist never makes create_backup fail: in a call
\* in which no file operation raises, the paths that do not exist are
\* skipped, every existing path of the list is in the archive, in list
\* order, and the archive path is returned.
C21_MissingPathSkipped ==
    (lastOp.op = "create" /\ lastOp.io = "ok") =>
        /\ lastOp.ret
        /\ archives[lastOp.ts].complete
        /\ \A p \in Range(lastOp.paths) :
              p \in Range(archives[lastOp.ts].srcs) <=> p \in fs
        /\ archives[lastOp.ts].srcs = FilterIn(lastOp.paths, fs)

\* a returned backup of a list that names an existing and a missing path
C21_Witness ==
    /\ lastOp.op = "create"
    /\ lastOp.ret
    /\ archives[lastOp.ts].srcs # <<>>
    /\ \E p \in Range(lastOp.paths) : p \notin fs

----------------------------------------------------------------------------
(* Two create_backup invocations on one component with no lock between    *)
(* them: every file operation of backup.py:48-89 is a step of its own.     *)

MaxSize == 2

RaceInit ==
    /\ profile = "base"
    /\ services = get_service_names(profile)
    /\ packages = get_package_names(profile)
    /\ installed = {}
    /\ active = {}
    /\ fs = {BaseBackupPaths[1]}
    /\ clock = 1
    /\ archives = [t \in Timestamps |-> NoArchive]
    /\ manifests = [t \in Timestamps |-> NoManifest]
    /\ pc = "idle"
    /\ runId = 0
    /\ calls = <<>>
    /\ rets = <<>>
    /\ backupPath = 0
    /\ cmds = <<>>
    /\ result = "none"
    /\ lastRestore = <<>>
    /\ lastOp = NoCall
    /\ listing = NoListing
    /\ returned = {}
    /\ made = 0
    /\ ExtIdle

raceFrame == <<cfgVars, osVars, runVars, callVars, objVars, excVars, concVars>>

\* the invocations other than p that are between their first and last step
Active(p) == { q \in Invocations \ {p} : inv[q].pc \notin {"idle", "done"} }

\* line 48: the timestamp is read; size is the byte length the manifest of
\* this invocation will have
BeginCreate ==
    \E p \in Invocations, paths \in PathLists, size \in 1..MaxSize :
        /\ inv[p].pc = "idle"
        /\ inv' = [q \in Invocations |->
                     IF q = p
                     THEN [NoInvocation EXCEPT !.pc = "named", !.ts = clock,
                                               !.paths = paths, !.size = size,
                                               !.overlapped = (Active(p) # {})]
                     ELSE IF q \in Active(p)
                          THEN [inv[q] EXCEPT !.overlapped = TRUE]
                          ELSE inv[q]]
        /\ UNCHANGED <<raceFrame, clock, storeVars, mlen>>

\* line 56
OpenArchive ==
    \E p \in Invocations :
        LET slot == FileSlot(inv[p].ts)
            open == { q \in Invocations \ {p} :
                        inv[q].pc = "archive_open" /\ FileSlot(inv[q].ts) = slot }
        IN /\ inv[p].pc = "named"
           /\ archives' = archive_open(archives, slot)
           /\ inv' = [q \in Invocations |->
                        IF q = p
                        THEN [inv[p] EXCEPT !.pc = "archive_open",
                                            !.shared = (open # {})]
                        ELSE IF q \in open THEN [inv[q] EXCEPT !.shared = TRUE]
                             ELSE inv[q]]
           /\ UNCHANGED <<raceFrame, clock, manifests, mlen>>

\* lines 57-67: with two handles on the file the bytes may or may not form
\* an archive
CloseArchive ==
    \E p \in Invocations, intact \in BOOLEAN :
        /\ inv[p].pc = "archive_open"
        /\ (~intact) => inv[p].shared
        /\ archives' = archive_close(archives, FileSlot(inv[p].ts), inv[p].paths,
                                     fs, intact)
        /\ inv' = [inv EXCEPT ![p].pc = "archive_closed"]
        /\ UNCHANGED <<raceFrame, clock, manifests, mlen>>

\* line 79
OpenManifest ==
    \E p \in Invocations :
        /\ inv[p].pc = "archive_closed"
        /\ manifests' = manifest_open(manifests, FileSlot(inv[p].ts))
        /\ mlen' = [mlen EXCEPT ![FileSlot(inv[p].ts)] = 0]
        /\ inv' = [inv EXCEPT ![p].pc = "manifest_open"]
        /\ UNCHANGED <<raceFrame, clock, archives>>

\* line 80 and the end of the with-block
WriteManifest ==
    \E p \in Invocations :
        LET w == manifest_write(manifests, mlen, FileSlot(inv[p].ts), inv[p].paths,
                                inv[p].size, inv[p].ts)
        IN /\ inv[p].pc = "manifest_open"
           /\ manifests' = w.manifests
           /\ mlen' = w.mlen
           /\ inv' = [inv EXCEPT ![p].pc = "written"]
           /\ UNCHANGED <<raceFrame, clock, archives>>

\* lines 83-89: the archive path is returned
ReturnPath ==
    \E p \in Invocations :
        /\ inv[p].pc = "written"
        /\ inv' = [inv EXCEPT ![p].pc = "done"]
        /\ UNCHANGED <<raceFrame, clock, storeVars, mlen>>

\* a second passes
RaceElapse ==
    /\ clock < MaxTime
    /\ clock' = clock + 1
    /\ UNCHANGED <<raceFrame, storeVars, raceVars>>

RaceNext ==
    \/ BeginCreate
    \/ OpenArchive
    \/ CloseArchive
    \/ OpenManifest
    \/ WriteManifest
    \/ ReturnPath
    \/ RaceElapse

RaceSpec == RaceInit /\ [][RaceNext]_vars

BothReturned == \A p \in Invocations : inv[p].pc = "done"

\* the entries list_backups reports for timestamp t
ListedFor(t) ==
    { i \in DOMAIN list_backups(archives, manifests) :
        list_backups(archives, manifests)[i] = t }

\* C22 as stated: after two create_backup invocations have finished,
\* list_backups reports a single backup for a timestamp both obtained, and
\* reports both when they obtained different timestamps.
C22_Collision ==
    BothReturned =>
        IF inv[1].ts = inv[2].ts
        THEN Cardinality(ListedFor(inv[1].ts)) = 1
        ELSE \A p \in Invocations : Cardinality(ListedFor(inv[p].ts)) = 1

\* what does hold after the two invocations: at most one backup is listed
\* for a shared timestamp, exactly one when one invocation returned before
\* the other began, none only when the manifest is no JSON document; with
\* different timestamps both are listed
CollisionAtMostOne ==
    BothReturned =>
        IF inv[1].ts = inv[2].ts
        THEN /\ Cardinality(ListedFor(inv[1].ts)) <= 1
             /\ (\A p \in Invocations : ~inv[p].overlapped) =>
                    /\ Cardinality(ListedFor(inv[1].ts)) = 1
                    /\ archives[FileSlot(inv[1].ts)].complete
                    /\ \E p \in Invocations :
                          manifests[FileSlot(inv[1].ts)].contents = inv[p].paths
             /\ Cardinality(ListedFor(inv[1].ts)) = 0 =>
                    ~manifests[FileSlot(inv[1].ts)].valid
        ELSE \A p \in Invocations :
                /\ Cardinality(ListedFor(inv[p].ts)) = 1
                /\ manifests[FileSlot(inv[p].ts)].contents = inv[p].paths
                /\ archives[FileSlot(inv[p].ts)].complete

----------------------------------------------------------------------------
(* Database-engine and language-runtime profiles: uninstallers/mysql.py,
   uninstallers/php.py *)

\* core.system.is_package_installed: dpkg reports the package as "ii"
is_package_installed(pkg, inst) == pkg \in inst

ServerPackages == {"mysql-server", "mariadb-server"}

\* the result of a constructor call that raised
Raised == [NoObject EXCEPT !.state = "raised"]

\* mutant: mariadb-server is probed before mysql-server
MySQLUninstaller_init_MariaFirst(inst) ==
    IF is_package_installed("mariadb-server", inst)
    THEN [obj |-> [NoObject EXCEPT !.state = "ok", !.component_name = "mysql",
                                   !.db_type = "mariadb",
                                   !.service_name = "mariadb",
                                   !.seen = inst \cap ServerPackages],
          packages |-> <<"mariadb-server", "mariadb-client", "mariadb-common",
                         "mariadb-server-core-*">>]
    ELSE IF is_package_installed("mysql-server", inst)
    THEN [obj |-> [NoObject EXCEPT !.state = "ok", !.component_name = "mysql",
                                   !.db_type = "mysql",
                                   !.service_name = "mysql",
                                   !.seen = inst \cap ServerPackages],
          packages |-> <<"mysql-server", "mysql-client", "mysql-common",
                         "mysql-server-core-*">>]
    ELSE [obj |-> [Raised EXCEPT !.seen = inst \cap ServerPackages],
          packages |-> <<>>]

\* MySQLUninstaller.__init__: the engine is whichever server package is
\* installed, mysql-server first; neither installed raises
MySQLUninstaller_init(inst) ==
    IF is_package_installed("mysql-server", inst)
    THEN [obj |-> [NoObject EXCEPT !.state = "ok", !.component_name = "mysql",
                                   !.db_type = "mysql",
                                   !.service_name = "mysql",
                                   !.seen = inst \cap ServerPackages],
          packages |-> <<"mysql-server", "mysql-client", "mysql-common",
                         "mysql-server-core-*">>]
    ELSE IF is_package_installed("mariadb-server", inst)
    THEN [obj |-> [NoObject EXCEPT !.state = "ok", !.component_name = "mysql",
                                   !.db_type = "mariadb",
                                   !.service_name = "mariadb",
                                   !.seen = inst \cap ServerPackages],
          packages |-> <<"mariadb-server", "mariadb-client", "mariadb-common",
                         "mariadb-server-core-*">>]
    ELSE [obj |-> [Raised EXCEPT !.seen = inst \cap ServerPackages],
          packages |-> <<>>]

\* f"{db_type}-server"
ServerPackage(db_type) ==
    IF db_type = "mysql" THEN "mysql-server" ELSE "mariadb-server"

\* MySQLUninstaller.get_backup_paths: the candidates that exist, in order
MysqlBackupCandidates ==
    << <<"etc", "mysql">>, <<"var", "lib", "mysql">>, <<"var", "log", "mysql">>,
       <<"etc", "mysql", "conf.d">> >>
mysql_get_backup_paths(files) == FilterIn(MysqlBackupCandidates, files)

MysqlBuffer == 500 * 1024 * 1024

\* mutant: free space equal to the need is refused too
mysql_pre_uninstall_checks_NoEqual(db_type, inst, files, free) ==
    IF ~is_package_installed(ServerPackage(db_type), inst) THEN FALSE
    ELSE IF free # -1
            /\ free <= TotalSize(mysql_get_backup_paths(files), files) + MysqlBuffer
         THEN FALSE
         ELSE TRUE

\* MySQLUninstaller.pre_uninstall_checks (free = -1: statvfs raised, which
\* the check only warns about)
mysql_pre_uninstall_checks(db_type, inst, files, free) ==
    IF ~is_package_installed(ServerPackage(db_type), inst) THEN FALSE
    ELSE IF free # -1
            /\ free < TotalSize(mysql_get_backup_paths(files), files) + MysqlBuffer
         THEN FALSE
         ELSE TRUE

PhpVersions == {"8.1", "8.3"}
PhpExtensions == <<"mysql", "xml", "mbstring", "curl", "zip", "gd", "intl",
                   "bcmath", "json", "opcache", "cli", "common">>

\* f"php{version}-{e}"
PhpPackage(v, e) ==
    IF v = "8.1"
    THEN
         CASE e = "fpm" -> "php8.1-fpm"
           [] e = "mysql" -> "php8.1-mysql"
           [] e = "xml" -> "php8.1-xml"
           [] e = "mbstring" -> "php8.1-mbstring"
           [] e = "curl" -> "php8.1-curl"
           [] e = "zip" -> "php8.1-zip"
           [] e = "gd" -> "php8.1-gd"
           [] e = "intl" -> "php8.1-intl"
           [] e = "bcmath" -> "php8.1-bcmath"
           [] e = "json" -> "php8.1-json"
           [] e = "opcache" -> "php8.1-opcache"
           [] e = "cli" -> "php8.1-cli"
           [] e = "common" -> "php8.1-common"
    ELSE
         CASE e = "fpm" -> "php8.3-fpm"
           [] e = "mysql" -> "php8.3-mysql"
           [] e = "xml" -> "php8.3-xml"
           [] e = "mbstring" -> "php8.3-mbstring"
           [] e = "curl" -> "php8.3-curl"
           [] e = "zip" -> "php8.3-zip"
           [] e = "gd" -> "php8.3-gd"
           [] e = "intl" -> "php8.3-intl"
           [] e = "bcmath" -> "php8.3-bcmath"
           [] e = "json" -> "php8.3-json"
           [] e = "opcache" -> "php8.3-opcache"
           [] e = "cli" -> "php8.3-cli"
           [] e = "common" -> "php8.3-common"

\* f"php{version}-fpm.log"
PhpLog(v) == IF v = "8.1" THEN "php8.1-fpm.log" ELSE "php8.3-fpm.log"

\* f"php{version}"
PhpComponent(v) == IF v = "8.1" THEN "php8.1" ELSE "php8.3"

\* PHPUninstaller.__init__
PHPUninstaller_init(v) ==
    [NoObject EXCEPT !.state = "ok", !.component_name = PhpComponent(v),
                     !.version = v, !.php_package = PhpPackage(v, "fpm")]

\* NginxUninstaller.__init__
NginxUninstaller_init == [NoObject EXCEPT !.state = "ok", !.component_name = "nginx"]

\* the extension packages of version v among exts that are installed, in order
RECURSIVE InstalledExtensions(_, _, _)
InstalledExtensions(v, exts, inst) ==
    IF exts = <<>> THEN <<>>
    ELSE (IF is_package_installed(PhpPackage(v, Head(exts)), inst)
          THEN <<PhpPackage(v, Head(exts))>> ELSE <<>>)
         \o InstalledExtensions(v, Tail(exts), inst)

\* mutant: every known extension package is listed, installed or not
php_get_package_names_All(obj, inst) ==
    <<obj.php_package>>
        \o [i \in 1..Len(PhpExtensions) |-> PhpPackage(obj.version, PhpExtensions[i])]

\* PHPUninstaller.get_package_names
php_get_package_names(obj, inst) ==
    <<obj.php_package>> \o InstalledExtensions(obj.version, PhpExtensions, inst)

\* PHPUninstaller.get_backup_paths: the candidates that exist, in order
PhpBackupCandidates(v) ==
    << <<"etc", "php", v>>, <<"etc", "php", v, "fpm">>,
       <<"etc", "php", v, "fpm", "pool.d">>,
       <<"etc", "php", v, "mods-available">>, <<"var", "log", PhpLog(v)>>,
       <<"var", "lib", "php", "sessions">>, <<"run", "php">> >>
php_get_backup_paths(v, files) == FilterIn(PhpBackupCandidates(v), files)

PhpBuffer == 200 * 1024 * 1024

\* PHPUninstaller.pre_uninstall_checks
php_pre_uninstall_checks(obj, inst, files, free) ==
    IF ~is_package_installed(obj.php_package, inst) THEN FALSE
    ELSE IF free # -1
            /\ free < TotalSize(php_get_backup_paths(obj.version, files), files)
                      + PhpBuffer
         THEN FALSE
         ELSE TRUE

\* the hooks of the constructed profile pr
profile_get_backup_paths(pr, obj, files) ==
    IF pr = "mysql" THEN mysql_get_backup_paths(files)
    ELSE IF pr = "php" THEN php_get_backup_paths(obj.version, files)
    ELSE get_backup_paths(pr, files)

profile_pre_uninstall_checks(pr, obj, inst, files, free) ==
    IF pr = "mysql" THEN mysql_pre_uninstall_checks(obj.db_type, inst, files, free)
    ELSE IF pr = "php" THEN php_pre_uninstall_checks(obj, inst, files, free)
    ELSE nginx_pre_uninstall_checks(inst, files, free)

\* f"/tmp/{db_type}_backup_{pid}"
TempDir(db_type) ==
    IF db_type = "mysql" THEN <<"tmp", "mysql_backup_pid">>
    ELSE <<"tmp", "mariadb_backup_pid">>

\* the file <dir>/<database>.sql, named here by its database
DumpFile(dir, database) == dir \o <<database>>

\* what SHOW DATABASES prints: a header line, then one name per line
ShowDatabases(names) == <<"Database">> \o names

\* the list comprehension over the output's lines: blank lines and the header
\* are dropped, every other line is a database
IsDatabaseLine(l) == l # "" /\ l # "Database"
ParseDatabases(lines) == SelectSeq(lines, IsDatabaseLine)

\* mutant: a dump that fails is only logged, the loop goes on
backup_databases_KeepGoing(db_type, lines, listOk, failAt, files) ==
    LET dir == TempDir(db_type)
        databases == ParseDatabases(lines)
        made_dir == files \cup {dir}
    IN IF ~listOk THEN [ret |-> FALSE, fs |-> made_dir]
       ELSE [ret |-> TRUE,
             fs |-> made_dir
                    \cup {DumpFile(dir, databases[i]) :
                             i \in (1..Len(databases)) \ {failAt}}
                    \cup {dir \o <<"database_list.txt">>,
                          dir \o <<"backup_info.json">>}]

\* MySQLUninstaller.backup_databases. listOk: the listing command exits 0;
\* failAt: the position of the database whose dump exits non-zero (0: none)
backup_databases(db_type, lines, listOk, failAt, files) ==
    LET dir == TempDir(db_type)
        databases == ParseDatabases(lines)
        made_dir == files \cup {dir}
        dumped(n) == made_dir \cup {DumpFile(dir, databases[i]) : i \in 1..n}
    IN IF ~listOk THEN [ret |-> FALSE, fs |-> made_dir]
       ELSE IF failAt \in 1..Len(databases)
       THEN [ret |-> FALSE, fs |-> dumped(failAt - 1)]
       ELSE [ret |-> TRUE,
             fs |-> dumped(Len(databases))
                    \cup {dir \o <<"database_list.txt">>,
                          dir \o <<"backup_info.json">>}]

\* rm -rf dir
RemoveTree(dir, files) == {q \in files : ~IsPrefix(dir, q)}

----------------------------------------------------------------------------
(* Constructing a profile and running the first two phases of its
   uninstall() *)

ProfileKinds == {"nginx", "mysql", "php"}

SystemSchemas == {"information_schema", "performance_schema", "mysql", "sys"}

\* the servers a behaviour may start with
DatabaseLists ==
    { <<"information_schema", "mysql", "performance_schema", "sys">>,
      <<"app", "information_schema", "mysql", "performance_schema", "sys">>,
      <<"information_schema", "shop">> }

MysqlFilesystems ==
    { {<<"etc", "mysql">>},
      {<<"etc", "mysql">>, <<"var", "lib", "mysql">>, <<"var", "log", "mysql">>},
      {<<"etc", "mysql">>, <<"etc", "mysql", "conf.d">>} }

PhpFilesystems ==
    { {<<"etc", "php", "8.1">>},
      {<<"etc", "php", "8.1">>, <<"etc", "php", "8.1", "fpm">>, <<"run", "php">>} }

\* the packages dpkg may report for a profile
PackageUniverse(pr) ==
    IF pr = "mysql" THEN ServerPackages
    ELSE IF pr = "php"
    THEN {"php8.1-fpm", "php8.1-xml", "php8.3-xml", "php8.1-imagick"}
    ELSE {"nginx"}

Buffer(pr) ==
    IF pr = "mysql" THEN MysqlBuffer
    ELSE IF pr = "php" THEN PhpBuffer
    ELSE NginxBuffer

ProfileInit ==
    /\ profile \in ProfileKinds
    /\ services = <<>>
    /\ packages = <<>>
    /\ installed \in SUBSET PackageUniverse(profile)
    /\ active = {}
    /\ fs \in IF profile = "mysql" THEN MysqlFilesystems
              ELSE IF profile = "php" THEN PhpFilesystems
              ELSE NginxFilesystems \cup {{<<"etc", "nginx">>}}
    /\ clock = 1
    /\ archives = [t \in Timestamps |-> NoArchive]
    /\ manifests = [t \in Timestamps |-> NoManifest]
    /\ pc = "new"
    /\ runId = 0
    /\ calls = <<>>
    /\ rets = <<>>
    /\ backupPath = 0
    /\ cmds = <<>>
    /\ result = "none"
    /\ lastRestore = <<>>
    /\ lastOp = NoCall
    /\ listing = NoListing
    /\ returned = {}
    /\ made = 0
    /\ inv = [p \in Invocations |-> NoInvocation]
    /\ mlen = [t \in Timestamps |-> 0]
    /\ built = NoObject
    /\ dbs \in IF profile = "mysql" THEN DatabaseLists ELSE {<<>>}
    /\ available_space \in {-1, 0} \cup {Buffer(profile) + k : k \in 0..MaxFreeExtra}
    /\ raised = <<>>
    /\ runs = [r \in ConcurrentRuns |-> NoRun]

profileFrame == <<clock, active, runId, cmds, listing, returned, made, raceVars,
                  dbs, available_space, excVars, concVars>>

\* the menu constructs the uninstaller of the chosen component
Construct ==
    /\ pc = "new"
    /\ \/ /\ profile = "mysql"
          /\ LET r == MySQLUninstaller_init(installed)
             IN /\ built' = r.obj
                /\ packages' = r.packages
                /\ services' = IF r.obj.state = "ok"
                               THEN <<r.obj.service_name>> ELSE <<>>
                /\ pc' = IF r.obj.state = "ok" THEN "idle" ELSE "raised"
       \/ /\ profile = "php"
          /\ \E v \in PhpVersions :
                /\ built' = PHPUninstaller_init(v)
                /\ services' = <<PhpPackage(v, "fpm")>>
                /\ packages' = <<>>
                /\ pc' = "idle"
       \/ /\ profile = "nginx"
          /\ built' = NginxUninstaller_init
          /\ services' = get_service_names(profile)
          /\ packages' = get_package_names(profile)
          /\ pc' = "idle"
    /\ lastOp' = NoCall
    /\ UNCHANGED <<profile, installed, fs, storeVars, calls, rets, backupPath,
                   result, lastRestore, profileFrame>>

\* dpkg's database changes while the uninstaller waits in the menu
DpkgChange ==
    /\ pc = "idle"
    /\ \E p \in PackageUniverse(profile) :
          installed' = IF p \in installed THEN installed \ {p}
                       ELSE installed \cup {p}
    /\ lastOp' = NoCall
    /\ UNCHANGED <<cfgVars, fs, storeVars, pc, calls, rets, backupPath,
                   result, lastRestore, built, profileFrame>>

\* get_package_names() of the constructed profile
GetPackageNames ==
    /\ pc = "idle"
    /\ packages' = IF profile = "php" THEN php_get_package_names(built, installed)
                   ELSE packages
    /\ lastOp' = [NoCall EXCEPT !.op = "get_package_names"]
    /\ UNCHANGED <<profile, services, installed, fs, storeVars, pc, calls, rets,
                   backupPath, result, lastRestore, built, profileFrame>>

ProfileStart ==
    /\ pc = "idle"
    /\ runId < MaxRuns
    /\ runId' = runId + 1
    /\ pc' = "pre_uninstall_checks"
    /\ lastOp' = NoCall
    /\ UNCHANGED <<cfgVars, installed, fs, storeVars, calls, rets, backupPath,
                   result, lastRestore, built, clock, active, cmds, listing,
                   returned, made, raceVars, dbs, available_space, excVars,
                   concVars>>

ProfilePreCheck ==
    /\ pc = "pre_uninstall_checks"
    /\ Advance("pre_uninstall_checks",
               profile_pre_uninstall_checks(profile, built, installed, fs,
                                            available_space))
    /\ lastOp' = NoCall
    /\ UNCHANGED <<cfgVars, installed, fs, storeVars, backupPath, built,
                   profileFrame>>

\* BaseUninstaller.create_backup, which the web-server and language-runtime
\* profiles inherit
ProfileBackup ==
    /\ pc = "create_backup"
    /\ profile # "mysql"
    /\ \E st \in BackupStages :
          LET r == BackupManager_create_backup(
                       profile_get_backup_paths(profile, built, fs),
                       clock, st, fs, archives, manifests, runId)
          IN /\ archives' = r.archives
             /\ manifests' = r.manifests
             /\ backupPath' = r.ret
             /\ Advance("create_backup", r.ret # 0)
    /\ lastOp' = NoCall
    /\ UNCHANGED <<cfgVars, installed, fs, built, profileFrame>>

\* MySQLUninstaller.create_backup, first step: backup_databases
BackupDatabases ==
    /\ pc = "create_backup"
    /\ profile = "mysql"
    /\ \E listOk \in BOOLEAN, failAt \in 0..Len(dbs) :
          LET r == backup_databases(built.db_type, ShowDatabases(dbs), listOk,
                                    failAt, fs)
          IN /\ fs' = r.fs
             /\ IF r.ret
                THEN /\ pc' = "store_create_backup"
                     /\ UNCHANGED <<calls, rets, result, lastRestore>>
                ELSE Advance("create_backup", FALSE)
    /\ lastOp' = NoCall
    /\ UNCHANGED <<cfgVars, installed, storeVars, backupPath, built,
                   profileFrame>>

\* second step: the archive store archives the standard paths and the dumps
StoreDumps ==
    /\ pc = "store_create_backup"
    /\ \E st \in BackupStages :
          LET r == BackupManager_create_backup(
                       mysql_get_backup_paths(fs) \o <<TempDir(built.db_type)>>,
                       clock, st, fs, archives, manifests, runId)
          IN /\ archives' = r.archives
             /\ manifests' = r.manifests
             /\ backupPath' = r.ret
    /\ pc' = "remove_temp"
    /\ lastOp' = NoCall
    /\ UNCHANGED <<cfgVars, installed, fs, calls, rets, result, lastRestore,
                   built, profileFrame>>

\* last step: rm -rf of the dump directory, whose exit status is not read,
\* and the return of what the archive store returned
RemoveTemp ==
    /\ pc = "remove_temp"
    /\ \E rmOk \in BOOLEAN :
          fs' = IF rmOk THEN RemoveTree(TempDir(built.db_type), fs) ELSE fs
    /\ Advance("create_backup", backupPath # 0)
    /\ lastOp' = NoCall
    /\ UNCHANGED <<cfgVars, installed, storeVars, backupPath, built,
                   profileFrame>>

ProfileNext ==
    \/ Construct
    \/ DpkgChange
    \/ GetPackageNames
    \/ ProfileStart
    \/ ProfilePreCheck
    \/ ProfileBackup
    \/ BackupDatabases
    \/ StoreDumps
    \/ RemoveTemp

ProfileSpec == ProfileInit /\ [][ProfileNext]_vars

----------------------------------------------------------------------------
(* Properties of the profiles *)

MysqlPackages ==
    <<"mysql-server", "mysql-client", "mysql-common", "mysql-server-core-*">>
MariadbPackages ==
    <<"mariadb-server", "mariadb-client", "mariadb-common",
      "mariadb-server-core-*">>

\* what construction must have resolved from the server packages it found
Resolved(obj, svcs, pkgs) ==
    /\ "mysql-server" \in obj.seen =>
          /\ obj.state = "ok" /\ obj.db_type = "mysql"
          /\ obj.service_name = "mysql" /\ svcs = <<"mysql">>
          /\ pkgs = MysqlPackages
    /\ ("mysql-server" \notin obj.seen /\ "mariadb-server" \in obj.seen) =>
          /\ obj.state = "ok" /\ obj.db_type = "mariadb"
          /\ obj.service_name = "mariadb" /\ svcs = <<"mariadb">>
          /\ pkgs = MariadbPackages
    /\ obj.seen = {} <=> obj.state = "raised"

\* C23: constructing the database-engine profile resolves engine and service
\* "mysql" when mysql-server is installed, otherwise "mariadb" when
\* mariadb-server is installed, and raises when neither is, in which case no
\* phase ever runs; engine, service and package list never change afterwards
C23_EngineResolved ==
    [][(profile = "mysql" /\ built'.state # "none") =>
          /\ Resolved(built', services', packages')
          /\ built.state = "none" => built'.seen = installed \cap ServerPackages
          /\ built'.state = "raised" => (calls' = <<>> /\ pc' = "raised")
          /\ built.state # "none" =>
                (built' = built /\ services' = services /\ packages' = packages)
      ]_vars

C23_Witness ==
    /\ profile = "mysql"
    /\ built.state = "ok"
    /\ built.db_type = "mysql"
    /\ "mysql-server" \notin installed
    /\ "mariadb-server" \in installed
    /\ calls # <<>>

\* the dump files the temporary directory holds
DumpFiles ==
    LET dir == TempDir(built.db_type)
    IN { q \in fs : /\ IsPrefix(dir, q)
                    /\ Len(q) = Len(dir) + 1
                    /\ Basename(q) \notin {"database_list.txt", "backup_info.json"} }

\* C24 as stated: when backup_databases has succeeded the temporary directory
\* holds one dump for every listed database that is not a system schema, and
\* no dump for a system schema
C24_OneDumpPerUserDatabase ==
    pc = "store_create_backup" =>
        DumpFiles = { DumpFile(TempDir(built.db_type), d) :
                         d \in Range(dbs) \ SystemSchemas }

\* C25 as stated: the temporary dump directory exists while the archive store
\* is still to be called, and no longer exists once the profile's
\* create_backup has returned
C25_TempDirRemoved ==
    /\ pc = "store_create_backup" => TempDir(built.db_type) \in fs
    /\ (profile = "mysql" /\ "create_backup" \in Range(calls)) =>
          TempDir(built.db_type) \notin fs

ClaimedBuffer ==
    [nginx |-> 100 * 1024 * 1024, mysql |-> 500 * 1024 * 1024,
     php |-> 200 * 1024 * 1024]

\* total size of the existing backup paths of the constructed profile
BackupSize == TotalSize(profile_get_backup_paths(profile, built, fs), fs)

\* the package whose absence fails the pre-check before space is looked at
MainPackage ==
    IF profile = "mysql" THEN ServerPackage(built.db_type)
    ELSE IF profile = "php" THEN built.php_package
    ELSE "nginx"

PreChecked == calls # <<>> /\ calls[1] = "pre_uninstall_checks"

\* C27: with the free space of / known, the pre-check returns false when it
\* is less than the backup paths' total size plus the profile's buffer, and
\* then uninstall() returns false with create_backup never called; with the
\* main package installed it returns true when free space is at least that sum
C27_SpaceGate ==
    (PreChecked /\ available_space # -1) =>
        /\ available_space < BackupSize + ClaimedBuffer[profile] =>
              /\ ~rets[1]
              /\ pc = "done" /\ result = "false"
              /\ calls = <<"pre_uninstall_checks">>
              /\ backupPath = 0
              /\ \A t \in Timestamps : ~archives[t].exists
        /\ (available_space >= BackupSize + ClaimedBuffer[profile]
            /\ MainPackage \in installed) => rets[1]

C27_Witness ==
    /\ PreChecked
    /\ profile = "mysql"
    /\ MainPackage \in installed
    /\ available_space = BackupSize + ClaimedBuffer[profile] - 1
    /\ result = "false"

\* the name tar.add stores path p under: arcname = os.path.basename(p)
MemberName(p) == Basename(p)

\* C28 as stated: in an archive a create_backup call has written, no two
\* distinct backed-up paths are stored under the same member name
C28_DistinctMemberNames ==
    \A t \in Timestamps :
        archives[t].complete =>
            \A i, j \in DOMAIN archives[t].srcs :
                archives[t].srcs[i] # archives[t].srcs[j] =>
                    MemberName(archives[t].srcs[i]) # MemberName(archives[t].srcs[j])

\* C29: stop_services queries the status of each service and issues a stop
\* command only for a service the query has just reported active; a query
\* that reports a service not active is not followed by a stop of it
C29_StopOnlyActive ==
    /\ \A i \in DOMAIN cmds :
          /\ cmds[i].op = "stop" =>
                /\ i > 1
                /\ cmds[i - 1] = Cmd("is-active", cmds[i].arg, TRUE)
          /\ (cmds[i].op = "is-active" /\ ~cmds[i].ok) =>
                (i = Len(cmds) \/ cmds[i + 1].op # "stop")
    /\ \A k \in DOMAIN calls :
          (calls[k] = "stop_services" /\ rets[k]) =>
              \A s \in Range(services) :
                  \E i \in DOMAIN cmds : cmds[i].op = "is-active" /\ cmds[i].arg = s

C29_Witness ==
    \E i, j \in DOMAIN cmds :
        /\ cmds[i].op = "is-active" /\ ~cmds[i].ok
        /\ cmds[j].op = "stop" /\ cmds[j].arg # cmds[i].arg

----------------------------------------------------------------------------
(* Exceptions inside the phases: where each try/except of base.py and
   nginx.py catches what a hook, a helper or an external command raises *)

HookPhases == {"pre_uninstall_checks", "post_uninstall_cleanup"}

\* what happens inside one phase call:
\*   "true" / "false"  nothing raises, the phase returns that value
\*   "absorbed"        a helper catches what a command raised and the phase
\*                     carries on (stop or status command, autoremove,
\*                     removal of a leftover directory)
\*   "helper"          a helper catches what a command raised and reports
\*                     failure (archive store, uninstall_package)
\*   "raise"           the exception reaches the phase function's own try
\*                     block, or leaves a hook that has none
PhaseOutcomes(pr, ph) ==
    IF ph = "pre_uninstall_checks"
    THEN {"true", "false", "raise"}
    ELSE IF ph = "create_backup" THEN {"true", "helper", "raise"}
    ELSE IF ph = "stop_services" THEN {"true", "absorbed", "raise"}
    ELSE IF ph = "disable_services" THEN {"true", "raise"}
    ELSE IF ph = "uninstall_packages" THEN {"true", "false", "absorbed", "helper", "raise"}
    ELSE IF ph = "post_uninstall_cleanup"
    THEN IF pr = "nginx" THEN {"true", "absorbed", "raise"}
         ELSE {"true", "false", "raise"}
    ELSE {"true", "false", "helper", "raise"}

\* mutant: disable_services has no handler of its own
phase_returns_DisableUnhandled(pr, ph, o) ==
    IF o \in {"true", "absorbed"} THEN "true"
    ELSE IF o \in {"false", "helper"} THEN "false"
    ELSE IF (ph \in HookPhases /\ pr # "nginx") \/ ph = "disable_services"
         THEN "raise"
         ELSE "false"

\* what the phase function hands to its caller: every phase of base.py and
\* every hook of nginx.py ends in "except Exception: return False" (None for
\* create_backup); the abstract hooks of the base class have no handler
phase_returns(pr, ph, o) ==
    IF o \in {"true", "absorbed"} THEN "true"
    ELSE IF o \in {"false", "helper"} THEN "false"
    ELSE IF ph \in HookPhases /\ pr # "nginx" THEN "raise"
         ELSE "false"

\* uninstall(): an exception that leaves a phase is caught by the driver's
\* own handler, which returns False
uninstall_step(pr, ph, r) ==
    IF r = "raise" THEN "return_false" ELSE UninstallNext(pr, ph, r = "true")

Raise(ph, o, r, k) == [phase |-> ph, kind |-> o, returned |-> r, call |-> k]

ExceptionInit ==
    /\ profile \in Profiles
    /\ services = get_service_names(profile)
    /\ packages = get_package_names(profile)
    /\ installed = Range(packages)
    /\ active = Range(services)
    /\ fs \in IF profile = "nginx" THEN {Range(NginxBackupCandidates)}
              ELSE {Range(BaseBackupPaths)}
    /\ clock = 1
    /\ archives = [t \in Timestamps |-> NoArchive]
    /\ manifests = [t \in Timestamps |-> NoManifest]
    /\ pc = "idle"
    /\ runId = 0
    /\ calls = <<>>
    /\ rets = <<>>
    /\ backupPath = 0
    /\ cmds = <<>>
    /\ result = "none"
    /\ lastRestore = <<>>
    /\ lastOp = NoCall
    /\ listing = NoListing
    /\ returned = {}
    /\ made = 0
    /\ ExtIdle

\* one phase of the run, with whatever is raised inside it
RunPhase ==
    /\ pc \in Range(Phases)
    /\ \E o \in PhaseOutcomes(profile, pc) :
          LET r == phase_returns(profile, pc, o)
              nx == uninstall_step(profile, pc, r)
          IN /\ calls' = Append(calls, pc)
             /\ rets' = IF r = "raise" THEN rets ELSE Append(rets, r = "true")
             /\ raised' = IF o \in {"absorbed", "helper", "raise"}
                          THEN Append(raised, Raise(pc, o, r, Len(calls) + 1))
                          ELSE raised
             /\ backupPath' = IF pc = "create_backup" /\ r = "true" THEN clock
                              ELSE backupPath
             /\ IF nx = "return_false" THEN pc' = "done" /\ result' = "false"
                ELSE IF nx = "return_true" THEN pc' = "done" /\ result' = "true"
                     ELSE pc' = nx /\ result' = result
    /\ UNCHANGED <<cfgVars, callVars, raceVars, objVars, concVars, osVars, clock,
                   storeVars, runId, cmds, lastRestore>>

\* BaseUninstaller.rollback called on the uninstaller, once
RaisingRollback ==
    /\ pc \in {"idle", "done"}
    /\ lastRestore = <<>>
    /\ \E o \in PhaseOutcomes(profile, "rollback") :
          LET r == phase_returns(profile, "rollback", o)
          IN /\ lastRestore' = << [caller |-> "rollback", restoreRet |-> r = "true",
                                   ret |-> r = "true"] >>
             /\ raised' = IF o \in {"absorbed", "helper", "raise"}
                          THEN Append(raised, Raise("rollback", o, r, 0))
                          ELSE raised
    /\ UNCHANGED <<cfgVars, callVars, raceVars, objVars, concVars, osVars, clock,
                   storeVars, pc, runId, calls, rets, backupPath, cmds, result>>

ExceptionNext ==
    \/ StartUninstall
    \/ RunPhase
    \/ FinalVerification
    \/ RaisingRollback

ExceptionSpec == ExceptionInit /\ [][ExceptionNext]_vars

\* C30 as stated: whatever raises inside a phase, an orchestrator-owned phase
\* returns false or none, and uninstall() returns false
C30_RaiseMeansFalse ==
    \A i \in DOMAIN raised :
        /\ raised[i].phase \notin HookPhases => raised[i].returned = "false"
        /\ (raised[i].phase # "rollback" /\ pc = "done") => result = "false"

\* C30, amended: no exception leaves an orchestrator-owned phase or
\* uninstall(); one that reaches the phase's own handler, or that a helper
\* reports as a failure, makes the phase return false or none, and
\* uninstall() then returns false at once, save for the web-server profile
\* after stop_services; one that leaves a hook makes uninstall() return false;
\* one that a helper absorbs leaves the phase returning true
C30_NoEscape ==
    /\ result \in {"none", "true", "false"}
    /\ \A i \in DOMAIN raised :
          LET e == raised[i]
          IN /\ e.returned = "raise" => (e.phase \in HookPhases /\ profile # "nginx")
             /\ (e.kind \in {"raise", "helper"} /\ e.returned # "raise") =>
                   e.returned = "false"
             /\ e.kind = "absorbed" => e.returned = "true"
             /\ (/\ e.kind \in {"raise", "helper"}
                 /\ e.phase # "rollback"
                 /\ ~(profile = "nginx" /\ e.phase = "stop_services")) =>
                   (pc = "done" /\ result = "false" /\ Len(calls) = e.call)

C30_Witness ==
    /\ pc = "done"
    /\ result = "false"
    /\ \E i \in DOMAIN raised :
          /\ raised[i].phase = "disable_services"
          /\ raised[i].kind = "raise"
          /\ raised[i].returned = "false"

----------------------------------------------------------------------------
(* Properties of failed and interrupted backups *)

\* the temporary directory shows that the listing or a dump failed: it
\* exists without its closing backup_info.json, or lacks a listed database
DumpFailed ==
    /\ profile = "mysql"
    /\ built.state = "ok"
    /\ TempDir(built.db_type) \in fs
    /\ \/ TempDir(built.db_type) \o <<"backup_info.json">> \notin fs
       \/ \E d \in Range(ParseDatabases(ShowDatabases(dbs))) :
             DumpFile(TempDir(built.db_type), d) \notin fs

\* C31: when the database listing or a dump has failed, the profile's
\* create_backup has returned none with no archive and no manifest written,
\* and uninstall() has returned false with no later phase invoked
C31_DumpFailureAborts ==
    DumpFailed =>
        /\ pc = "done"
        /\ result = "false"
        /\ calls = <<"pre_uninstall_checks", "create_backup">>
        /\ rets = <<TRUE, FALSE>>
        /\ backupPath = 0
        /\ \A t \in Timestamps : ~archives[t].exists /\ ~manifests[t].exists
        /\ cmds = <<>>

C31_Witness ==
    /\ DumpFailed
    /\ result = "false"
    /\ \E d \in Range(dbs) : DumpFile(TempDir(built.db_type), d) \in fs

\* C32 as stated: a create_backup call that returns none leaves list_backups
\* reporting exactly the backups it reported before the call
C32_FailedCreateInvisible ==
    [][(made' = made + 1 /\ lastOp'.op = "create" /\ ~lastOp'.ret) =>
          list_backups(archives', manifests') = list_backups(archives, manifests)
      ]_vars

\* a create_backup call that runs alone: no other invocation has begun
Alone(p) == \A q \in Invocations \ {p} : inv[q].pc = "idle"

C34_ContentsWereAdded ==
    \A t \in Timestamps :
        (manifests[t].exists /\ manifests[t].valid /\ archives[t].complete) =>
            Range(manifests[t].contents) \subseteq Range(archives[t].srcs)

----------------------------------------------------------------------------
(* The backup directories: one per component name *)

\* the component names the rollback menu, the backup-management menu and
\* get_uninstallation_history construct a BackupManager for
MenuComponents == {"nginx", "mysql", "php"}

\* BackupManager.__init__: the directory is named after the component name
backup_dir(component_name) == <<"var", "lib", "kurserver", "backups", component_name>>

\* BackupManager(component).list_backups() when the only backups on disk are
\* those the uninstaller obj has written (arch, man) into its own directory
component_backups(component, obj, arch, man) ==
    IF backup_dir(component) = backup_dir(obj.component_name)
    THEN list_backups(arch, man)
    ELSE <<>>

\* C38 as stated: a backup that uninstall() has created is listed under one
\* of the component names the menus and the history look up
C38_BackupOfferedForRollback ==
    (backupPath # 0 /\ built.state = "ok") =>
        \E c \in MenuComponents :
            backupPath \in Range(component_backups(c, built, archives, manifests))

----------------------------------------------------------------------------
(* Package removal and post-cleanup of the three profiles, over successive
   uninstall() calls *)

\* get_package_names() of the profile, evaluated when it is called
profile_get_package_names(pr, obj, pkgs, inst) ==
    IF pr = "php" THEN php_get_package_names(obj, inst) ELSE pkgs

\* f"php{version}-fpm.sock"
PhpSock(v) == IF v = "8.1" THEN "php8.1-fpm.sock" ELSE "php8.3-fpm.sock"

PhpCleanupPaths(v) ==
    << <<"etc", "php", v>>, <<"var", "log", PhpLog(v)>>,
       <<"run", "php", PhpSock(v)>>, <<"var", "lib", "php", "modules", v>> >>

SessionDir == <<"var", "lib", "php", "sessions">>

\* a file name for which startswith(f"sess_php{version}") holds
PhpSessionName(v) == IF v = "8.1" THEN "sess_php8.1_a" ELSE "sess_php8.3_a"

\* PHPUninstaller.post_uninstall_cleanup; listOk: os.listdir of the session
\* directory did not raise
php_post_uninstall_cleanup(obj, purgeOk, listOk, exc, inst, files) ==
    IF exc THEN [ret |-> FALSE, installed |-> inst, fs |-> files, log |-> <<>>]
    ELSE LET pg == PurgeAll(php_get_package_names(obj, inst), purgeOk, inst, <<>>)
             rm == RemoveTrees(PhpCleanupPaths(obj.version), files, pg.log)
             sess == SessionDir \o <<PhpSessionName(obj.version)>>
             hit == SessionDir \in rm.fs /\ listOk /\ sess \in rm.fs
         IN [ret |-> TRUE, installed |-> pg.installed,
             fs |-> IF hit THEN rm.fs \ {sess} ELSE rm.fs,
             log |-> IF hit THEN Append(rm.log, Cmd("rm-f", Basename(sess), TRUE))
                     ELSE rm.log]

MysqlCleanupPaths ==
    << <<"var", "lib", "mysql">>, <<"var", "log", "mysql">>, <<"etc", "mysql">>,
       <<"run", "mysqld">> >>

\* MySQLUninstaller.post_uninstall_cleanup; userExists: id mysql exits 0
mysql_post_uninstall_cleanup(pkgs, userExists, purgeOk, exc, inst, files) ==
    IF exc THEN [ret |-> FALSE, installed |-> inst, fs |-> files, log |-> <<>>]
    ELSE LET usr == IF userExists THEN <<Cmd("userdel", "mysql", TRUE)>> ELSE <<>>
             pg == PurgeAll(pkgs, purgeOk, inst, usr)
             rm == RemoveTrees(MysqlCleanupPaths, files, pg.log)
         IN [ret |-> TRUE, installed |-> pg.installed, fs |-> rm.fs, log |-> rm.log]

\* the hosts a behaviour may start from: the main package of the component
\* is installed
RemovalInstalled(pr) ==
    IF pr = "mysql"
    THEN { {"mysql-server", "mysql-common"}, {"mariadb-server"},
           {"mysql-server", "mariadb-server"} }
    ELSE IF pr = "php"
    THEN { {"php8.1-fpm"}, {"php8.1-fpm", "php8.1-xml"} }
    ELSE { {"nginx", "nginx-common"}, {"nginx", "nginx-common", "nginx-core"} }

RemovalFilesystem(pr) ==
    IF pr = "mysql" THEN {<<"etc", "mysql">>, <<"var", "lib", "mysql">>}
    ELSE IF pr = "php"
    THEN {<<"etc", "php", "8.1">>, SessionDir, SessionDir \o <<PhpSessionName("8.1")>>}
    ELSE {<<"etc", "nginx">>, <<"var", "log", "nginx">>}

RemovalInit ==
    /\ profile \in ProfileKinds
    /\ services = <<>>
    /\ packages = <<>>
    /\ installed \in RemovalInstalled(profile)
    /\ active \in {{}, {"nginx", "mysql", "mariadb", "php8.1-fpm", "php8.3-fpm"}}
    /\ fs = RemovalFilesystem(profile)
    /\ clock = 1
    /\ archives = [t \in Timestamps |-> NoArchive]
    /\ manifests = [t \in Timestamps |-> NoManifest]
    /\ pc = "new"
    /\ runId = 0
    /\ calls = <<>>
    /\ rets = <<>>
    /\ backupPath = 0
    /\ cmds = <<>>
    /\ result = "none"
    /\ lastRestore = <<>>
    /\ lastOp = NoCall
    /\ listing = NoListing
    /\ returned = {}
    /\ made = 0
    /\ inv = [p \in Invocations |-> NoInvocation]
    /\ mlen = [t \in Timestamps |-> 0]
    /\ built = NoObject
    /\ dbs = <<>>
    /\ available_space = Buffer(profile) + 2 * MaxFreeExtra
    /\ raised = <<>>
    /\ runs = [r \in ConcurrentRuns |-> NoRun]

\* the menu is entered again: the next uninstall() runs on an uninstaller
\* constructed from what is installed then
MenuAgain ==
    /\ pc = "idle"
    /\ runId \in 1..(MaxUninstalls - 1)
    /\ pc' = "new"
    /\ built' = NoObject
    /\ services' = <<>>
    /\ packages' = <<>>
    /\ UNCHANGED <<profile, callVars, raceVars, dbs, available_space, excVars,
                   concVars,
                   osVars, clock, storeVars, runId, calls, rets, backupPath,
                   cmds, result, lastRestore>>

\* uninstall() is called on the constructed uninstaller
RemovalStart ==
    /\ pc = "idle"
    /\ runId < MaxUninstalls
    /\ runId' = runId + 1
    /\ pc' = "pre_uninstall_checks"
    /\ UNCHANGED <<cfgVars, callVars, extVars, osVars, clock, storeVars, calls,
                   rets, backupPath, cmds, result, lastRestore>>

\* BaseUninstaller.uninstall_packages on the profile's package list
ProfileUninstallPackages ==
    /\ pc = "uninstall_packages"
    /\ LET pkgs == profile_get_package_names(profile, built, packages, installed)
       IN \E out \in [Range(pkgs) -> RemoveOutcomes], autoOk \in BOOLEAN :
             LET r == uninstall_packages(pkgs, out, autoOk, installed, <<>>)
             IN /\ installed' = r.installed
                /\ cmds' = cmds \o r.log
                /\ Advance("uninstall_packages", r.ret)
    /\ UNCHANGED <<cfgVars, callVars, extVars, active, fs, clock, storeVars,
                   runId, backupPath>>

\* post_uninstall_cleanup of the profile
ProfilePostCleanup ==
    /\ pc = "post_uninstall_cleanup"
    /\ \E lsofNginx \in BOOLEAN, purgeOk \in BOOLEAN, exc \in BOOLEAN :
          LET r == IF profile = "nginx"
                   THEN nginx_post_uninstall_cleanup(lsofNginx, purgeOk, exc,
                                                     installed, fs)
                   ELSE IF profile = "mysql"
                   THEN mysql_post_uninstall_cleanup(packages, lsofNginx, purgeOk,
                                                     exc, installed, fs)
                   ELSE php_post_uninstall_cleanup(built, purgeOk, lsofNginx, exc,
                                                   installed, fs)
          IN /\ installed' = r.installed
             /\ fs' = r.fs
             /\ cmds' = cmds \o r.log
             /\ Advance("post_uninstall_cleanup", r.ret)
    /\ UNCHANGED <<cfgVars, callVars, extVars, active, clock, storeVars, runId,
                   backupPath>>

RemovalNext ==
    \/ Construct
    \/ MenuAgain
    \/ RemovalStart
    \/ ProfilePreCheck
    \/ ProfileBackup
    \/ BackupDatabases
    \/ StoreDumps
    \/ RemoveTemp
    \/ StopServices
    \/ DisableServices
    \/ ProfileUninstallPackages
    \/ ProfilePostCleanup
    \/ FinalVerification
    \/ ReturnToMenu

RemovalSpec == RemovalInit /\ [][RemovalNext]_vars

----------------------------------------------------------------------------
(* Properties of successive uninstall() calls *)

\* C36: once uninstall() has removed the main package of the profile, a
\* later uninstall() on an uninstaller of that profile fails at its
\* pre-check: it returns false after that one phase, creates no backup,
\* issues no service or package command and changes nothing on the host,
\* whatever other packages of the profile are still installed.  (Every
\* behaviour starts with the main package installed, so it is absent at a
\* pre-check only after a run has removed it, or when the uninstaller is for
\* a version that was never installed.)
C36_RemovedMeansPreCheckFails ==
    [][(pc = "pre_uninstall_checks" /\ built.state = "ok"
        /\ MainPackage \notin installed)
          => /\ pc' = "done"
             /\ result' = "false"
             /\ calls' = <<"pre_uninstall_checks">>
             /\ rets' = <<FALSE>>
             /\ cmds' = <<>>
             /\ backupPath' = 0
             /\ storeVars' = storeVars
             /\ osVars' = osVars]_vars

\* a second uninstall() has failed at pre-check after a first run removed
\* the main package and left another package of the list installed
C36_Witness ==
    /\ runId = 2 /\ pc = "done" /\ result = "false"
    /\ calls = <<"pre_uninstall_checks">> /\ cmds = <<>>
    /\ MainPackage \notin installed
    /\ MainPackage \in UNION RemovalInstalled(profile)
    /\ \E p \in Range(profile_get_package_names(profile, built, packages, installed)) :
          p # MainPackage /\ p \in installed

RemovedInRun == {c.arg : c \in {d \in Range(cmds) : d.op = "remove" /\ d.ok}}
PurgedInRun == {c.arg : c \in {d \in Range(cmds) : d.op = "purge"}}

\* C37 as stated: in a run whose uninstall_packages succeeded and whose
\* post-cleanup ran to its end, a purge was issued for every package that
\* uninstall_packages removed in that run
C37_RemovedArePurged ==
    (Len(rets) = 6 /\ rets[5] /\ rets[6]) => RemovedInRun \subseteq PurgedInRun

----------------------------------------------------------------------------
(* The web-server profile's uninstall() against the base orchestrator's *)

PhaseOutcomeMaps == [Range(Phases) -> BOOLEAN]

\* BaseUninstaller.uninstall run on given phase outcomes, from phase ph on:
\* the phases it invokes and what it returns
RECURSIVE BaseRun(_, _)
BaseRun(o, ph) ==
    LET nx == BaseUninstallNext(ph, o[ph])
    IN IF nx = "return_false" THEN [calls |-> <<ph>>, result |-> "false"]
       ELSE IF nx = "return_true" THEN [calls |-> <<ph>>, result |-> "true"]
       ELSE LET r == BaseRun(o, nx)
            IN [calls |-> <<ph>> \o r.calls, result |-> r.result]

\* the outcome maps that agree with what the phases of this run returned
Observed(o) == \A i \in DOMAIN calls : o[calls[i]] = rets[i]

\* C39: a finished uninstall() of the web-server profile in which
\* stop_services did not return false has invoked the phases, in the order,
\* and returned the value that the base orchestrator's uninstall() does on
\* the same phase outcomes, whichever ports the final check found in use
C39_NginxRefinesBase ==
    (profile = "nginx" /\ pc = "done"
     /\ (Len(rets) >= 3 => rets[3]))
        => \A o \in PhaseOutcomeMaps :
              Observed(o) =>
                  BaseRun(o, Phases[1]) = [calls |-> calls, result |-> result]

\* a web-server run that succeeded although a port was found in use
C39_Witness ==
    /\ profile = "nginx" /\ pc = "done" /\ result = "true" /\ calls = Phases
    /\ \E i \in DOMAIN cmds : cmds[i].op = "netstat" /\ cmds[i].ok

----------------------------------------------------------------------------
(* Two processes that run the web-server profile's uninstall() on one host;
   nothing excludes them, and each phase is one step *)

\* the run of process r has invoked phase ph, which returned ok
RunAdvance(r, ph, ok, ts, isLate) ==
    LET nx == NginxUninstallNext(ph, ok)
    IN runs' = [runs EXCEPT ![r] =
                  [pc |-> IF nx = "return_false" THEN "done" ELSE nx,
                   reached |-> PhaseIndex(ph),
                   backup |-> IF ph = "create_backup" THEN ts ELSE @.backup,
                   late |-> IF ph = "create_backup" THEN isLate ELSE @.late,
                   result |-> IF nx = "return_false" THEN "false" ELSE @.result]]

\* some process has begun a destructive phase
DestructionBegun == \E q \in ConcurrentRuns : runs[q].reached >= PhaseIndex("stop_services")

ConcurrentInit ==
    /\ profile = "nginx"
    /\ services = get_service_names(profile)
    /\ packages = get_package_names(profile)
    /\ installed = Range(packages)
    /\ active = Range(services)
    /\ fs = {<<"etc", "nginx">>, <<"var", "log", "nginx">>}
    /\ clock = 1
    /\ archives = [t \in Timestamps |-> NoArchive]
    /\ manifests = [t \in Timestamps |-> NoManifest]
    /\ pc = "idle"
    /\ runId = 0
    /\ calls = <<>>
    /\ rets = <<>>
    /\ backupPath = 0
    /\ cmds = <<>>
    /\ result = "none"
    /\ lastRestore = <<>>
    /\ lastOp = NoCall
    /\ listing = NoListing
    /\ returned = {}
    /\ made = 0
    /\ ExtIdle

concFrame == <<cfgVars, runVars, callVars, raceVars, objVars, excVars>>

\* a menu constructs the uninstaller and calls uninstall()
RunStart(r) ==
    /\ runs[r].pc = "idle"
    /\ runs' = [runs EXCEPT ![r].pc = "pre_uninstall_checks"]
    /\ UNCHANGED <<concFrame, osVars, clock, storeVars>>

RunPreCheck(r) ==
    /\ runs[r].pc = "pre_uninstall_checks"
    /\ \E free \in FreeChoices :
          RunAdvance(r, "pre_uninstall_checks",
                     nginx_pre_uninstall_checks(installed, fs, free), 0, FALSE)
    /\ UNCHANGED <<concFrame, osVars, clock, storeVars>>

RunBackup(r) ==
    /\ runs[r].pc = "create_backup"
    /\ \E st \in BackupStages :
          LET b == create_backup(profile, clock, st, fs, archives, manifests, r)
          IN /\ archives' = b.archives
             /\ manifests' = b.manifests
             /\ RunAdvance(r, "create_backup", b.ret # 0, b.ret, DestructionBegun)
    /\ UNCHANGED <<concFrame, osVars, clock>>

RunStopServices(r) ==
    /\ runs[r].pc = "stop_services"
    /\ \E out \in [Range(services) -> StopOutcomes], exc \in BOOLEAN :
          LET s == stop_services(services, out, exc, active)
          IN /\ active' = s.active
             /\ RunAdvance(r, "stop_services", s.ret, 0, FALSE)
    /\ UNCHANGED <<concFrame, installed, fs, clock, storeVars>>

RunDisableServices(r) ==
    /\ runs[r].pc = "disable_services"
    /\ \E okOf \in [Range(services) -> BOOLEAN] :
          RunAdvance(r, "disable_services",
                     disable_services(services, okOf, <<>>).ret, 0, FALSE)
    /\ UNCHANGED <<concFrame, osVars, clock, storeVars>>

RunUninstallPackages(r) ==
    /\ runs[r].pc = "uninstall_packages"
    /\ \E out \in [Range(packages) -> RemoveOutcomes], autoOk \in BOOLEAN :
          LET u == uninstall_packages(packages, out, autoOk, installed, <<>>)
          IN /\ installed' = u.installed
             /\ RunAdvance(r, "uninstall_packages", u.ret, 0, FALSE)
    /\ UNCHANGED <<concFrame, active, fs, clock, storeVars>>

RunPostCleanup(r) ==
    /\ runs[r].pc = "post_uninstall_cleanup"
    /\ \E lsofNginx \in BOOLEAN, purgeOk \in BOOLEAN, exc \in BOOLEAN :
          LET c == nginx_post_uninstall_cleanup(lsofNginx, purgeOk, exc, installed, fs)
          IN /\ installed' = c.installed
             /\ fs' = c.fs
             /\ RunAdvance(r, "post_uninstall_cleanup", c.ret, 0, FALSE)
    /\ UNCHANGED <<concFrame, active, clock, storeVars>>

RunFinalVerification(r) ==
    /\ runs[r].pc = "final_verification"
    /\ \E busy \in BusyChoices :
          runs' = [runs EXCEPT ![r].pc = "done",
                               ![r].result = nginx_final_verification(busy).ret]
    /\ UNCHANGED <<concFrame, osVars, clock, storeVars>>

\* a second passes while a process is about to take its backup
RunTick ==
    /\ \E r \in ConcurrentRuns : runs[r].pc = "create_backup"
    /\ clock < MaxTime
    /\ clock' = clock + 1
    /\ UNCHANGED <<concFrame, concVars, osVars, storeVars>>

ConcurrentNext ==
    \/ \E r \in ConcurrentRuns : RunStart(r)
    \/ \E r \in ConcurrentRuns : RunPreCheck(r)
    \/ \E r \in ConcurrentRuns : RunBackup(r)
    \/ \E r \in ConcurrentRuns : RunStopServices(r)
    \/ \E r \in ConcurrentRuns : RunDisableServices(r)
    \/ \E r \in ConcurrentRuns : RunUninstallPackages(r)
    \/ \E r \in ConcurrentRuns : RunPostCleanup(r)
    \/ \E r \in ConcurrentRuns : RunFinalVerification(r)
    \/ RunTick

ConcurrentSpec == ConcurrentInit /\ [][ConcurrentNext]_vars

\* C35 as stated: the backup of every run that has begun a destructive phase
\* was taken before any run had begun a destructive phase
C35_BackupBeforeDestruction ==
    \A r \in ConcurrentRuns :
        runs[r].reached >= PhaseIndex("stop_services") => ~runs[r].late

====
